---- MODULE Spec2Model ----
(***************************************************************************)
(* State-machine model of the home-automation bot (src/bot_core.py) and    *)
(* of its HTTP facade (src/api_server.py).                                 *)
(*                                                                         *)
(* Text is modelled as a sequence of characters.  A Latin letter, digit or *)
(* punctuation mark is the one-character string itself; a Cyrillic letter  *)
(* is written as a transliterated token, "c_d" for the small letter DE and *)
(* "C_D" for the capital one, because the module text is ASCII.            *)
(*                                                                         *)
(* Init is the state that OptimizedHomeBot.init leaves (bot_core.py:61-71),*)
(* the method that sets up every attribute of the bot.                     *)
(***************************************************************************)
EXTENDS Integers, Sequences, FiniteSets, TLC

\* user_states, devices_cache, sensors_cache: the dicts of the bot;
\* all_devices: _all_devices; cache_timestamp: _cache_timestamp;
\* areas_list_memo: what lru_cache holds for get_all_areas_list;
\* hub: the device list of Home Assistant; now: the clock (time.time());
\* last: the handler that ran last, its input, replies and hub fetches;
\* ev: the call log of that handler (cache reads, invalidations, hub
\* control calls, in order); prev: the last read or invalidation before it;
\* error_count: the local variable of that name of run_telegram_bot;
\* last_id: the field of that name; telegram: the updates that Telegram has
\* received for the bot, in order; handled: the ids of the updates that were
\* passed to handle_message, in order; threads: the requests that the
\* threads of the HTTP facade are serving, each with its position and locals.
VARIABLES user_states, devices_cache, all_devices, cache_timestamp,
          areas_list_memo, sensors_cache, hub, now, last, ev, prev,
          error_count, last_id, telegram, handled, threads

vars == <<user_states, devices_cache, all_devices, cache_timestamp,
          areas_list_memo, sensors_cache, hub, now, last, ev, prev,
          error_count, last_id, telegram, handled, threads>>

\* the threads of the HTTP facade, when their steps are not followed
NoThreads == <<>>

-----------------------------------------------------------------------------
(* Characters and strings                                                  *)

\* str.lower() on one character: the capital letters that occur in the
\* texts and names of the model, mapped to their small letters.
LowerChar(c) ==
    CASE c = "C_D" -> "c_d"
      [] c = "C_O" -> "c_o"
      [] c = "C_N" -> "c_n"
      [] c = "C_S" -> "c_s"
      [] c = "C_V" -> "c_v"
      [] c = "C_Y" -> "c_y"
      [] c = "C_K" -> "c_k"
      [] c = "C_L" -> "c_l"
      [] c = "C_U" -> "c_u"
      [] c = "L" -> "l"
      [] c = "H" -> "h"
      [] c = "P" -> "p"
      [] c = "T" -> "t"
      [] OTHER -> c

\* str.lower()
Lower(s) == [i \in 1..Len(s) |-> LowerChar(s[i])]

\* s[i:] for a 1-based i
From(s, i) == SubSeq(s, i, Len(s))

\* s.startswith(w) at offset i (1-based)
MatchAt(s, i, w) ==
    /\ i + Len(w) - 1 <= Len(s)
    /\ \A j \in 1..Len(w) : s[i + j - 1] = w[j]

\* w in s
Contains(s, w) == \E i \in 1..(Len(s) + 1) : MatchAt(s, i, w)

\* \s of the regular expressions
IsSpace(c) == c = " "

\* \w of the regular expressions: letters (Latin or Cyrillic), digits, "_"
IsWordChar(c) == c \notin {" ", "-", ".", "/", ":"}

\* str(i) for the house numbers 1..10
Num(i) == IF i = 10 THEN <<"1", "0">>
          ELSE <<CASE i = 1 -> "1" [] i = 2 -> "2" [] i = 3 -> "3"
                   [] i = 4 -> "4" [] i = 5 -> "5" [] i = 6 -> "6"
                   [] i = 7 -> "7" [] i = 8 -> "8" [] i = 9 -> "9">>

\* s.replace(w, ''): every non-overlapping occurrence, left to right
RECURSIVE Remove(_, _)
Remove(s, w) ==
    IF s = <<>> \/ w = <<>> THEN s
    ELSE IF MatchAt(s, 1, w) THEN Remove(From(s, Len(w) + 1), w)
    ELSE <<s[1]>> \o Remove(Tail(s), w)

\* re.sub(re.escape(w), '', s, flags=re.IGNORECASE)
RECURSIVE RemoveIgnoreCase(_, _)
RemoveIgnoreCase(s, w) ==
    IF s = <<>> \/ w = <<>> THEN s
    ELSE IF MatchAt(Lower(s), 1, Lower(w))
         THEN RemoveIgnoreCase(From(s, Len(w) + 1), w)
    ELSE <<s[1]>> \o RemoveIgnoreCase(Tail(s), w)

\* re.sub(r'\s+', ' ', s): every run of white space becomes one space
RECURSIVE CollapseSpaces(_)
CollapseSpaces(s) ==
    IF s = <<>> THEN s
    ELSE IF IsSpace(s[1])
         THEN IF Len(s) > 1 /\ IsSpace(s[2]) THEN CollapseSpaces(Tail(s))
              ELSE <<" ">> \o CollapseSpaces(Tail(s))
    ELSE <<s[1]>> \o CollapseSpaces(Tail(s))

\* str.strip()
RECURSIVE LStrip(_)
LStrip(s) == IF s # <<>> /\ IsSpace(s[1]) THEN LStrip(Tail(s)) ELSE s

RECURSIVE RStrip(_)
RStrip(s) == IF s # <<>> /\ IsSpace(s[Len(s)])
             THEN RStrip(SubSeq(s, 1, Len(s) - 1)) ELSE s

Strip(s) == RStrip(LStrip(s))

-----------------------------------------------------------------------------
(* Constants of bot_core.py                                                *)

Str_light == <<"l", "i", "g", "h", "t">>
Str_switch == <<"s", "w", "i", "t", "c", "h">>
Str_lamp == <<"l", "a", "m", "p">>
Str_control == <<"c", "o", "n", "t", "r", "o", "l">>
Str_house == <<"h", "o", "u", "s", "e">>
Str_cottage == <<"c", "o", "t", "t", "a", "g", "e">>
\* 'temperature humidity sensor'
Str_ths == <<"t", "e", "m", "p", "e", "r", "a", "t", "u", "r", "e", " ",
             "h", "u", "m", "i", "d", "i", "t", "y", " ",
             "s", "e", "n", "s", "o", "r">>
\* 'kws-306wf t'
Str_kws == <<"k", "w", "s", "-", "3", "0", "6", "w", "f", " ", "t">>
\* the Cyrillic words dom, domik, kottedzh
Str_dom == <<"c_d", "c_o", "c_m">>
Str_domik == <<"c_d", "c_o", "c_m", "c_i", "c_k">>
Str_kottedzh == <<"c_k", "c_o", "c_t", "c_t", "c_e", "c_d", "c_zh">>
\* svet, vyklyuchatel, rozetka, lampa, upravlenie
Str_svet == <<"c_s", "c_v", "c_e", "c_t">>
Str_vyklyuchatel == <<"c_v", "c_y", "c_k", "c_l", "c_yu", "c_ch", "c_a",
                      "c_t", "c_e", "c_l", "c_soft">>
Str_rozetka == <<"c_r", "c_o", "c_z", "c_e", "c_t", "c_k", "c_a">>
Str_lampa == <<"c_l", "c_a", "c_m", "c_p", "c_a">>
Str_upravlenie == <<"c_u", "c_p", "c_r", "c_a", "c_v", "c_l", "c_e", "c_n",
                    "c_i", "c_e">>
\* "Ustrojstvo", the placeholder short name
Str_Ustrojstvo == <<"C_U", "c_s", "c_t", "c_r", "c_o", "c_j", "c_s", "c_t",
                    "c_v", "c_o">>

\* CONTROLLABLE_DOMAINS; a domain is the part of an entity id before its
\* first ".", and an entity id is the sequence <<domain, ".", slug>>.
CONTROLLABLE_DOMAINS ==
    {<<"light">>, <<"switch">>, <<"climate">>, <<"cover">>, <<"fan">>,
     <<"input_boolean">>}

\* WORDS_TO_REMOVE, in the order in which the source lists the set (the
\* source iterates a set of str, whose order Python does not fix; the names
\* of the hub's devices below hold at most one of the words)
WORDS_TO_REMOVE ==
    <<Str_svet, Str_light, Str_switch, Str_vyklyuchatel, Str_rozetka,
      Str_lampa, Str_lamp, Str_upravlenie, Str_control, Str_ths>>

CACHE_TTL == 2

\* f'Domik {i}', the key of house i
HouseName(i) == <<"C_D", "c_o", "c_m", "c_i", "c_k", " ">> \o Num(i)

\* 'Obshchie ustrojstva', the key of the catch-all group
GeneralName == <<"C_O", "c_b", "c_sch", "c_i", "c_e", " ", "c_u", "c_s",
                 "c_t", "c_r", "c_o", "c_j", "c_s", "c_t", "c_v", "c_a">>

HouseNumbers == 1..10

-----------------------------------------------------------------------------
(* Pattern table and grouping                                              *)

\* the first index from q on that holds no white space (Len(s) + 1 if none)
RECURSIVE SkipSpaces(_, _)
SkipSpaces(s, q) ==
    IF q <= Len(s) /\ IsSpace(s[q]) THEN SkipSpaces(s, q + 1) ELSE q

\* rf'{word}\s*{i}' found somewhere in s: the word, any white space, and
\* the number (a digit is no white space, so \s* takes the whole run)
SearchWordNum(s, word, i) ==
    \E p \in 1..Len(s) :
        /\ MatchAt(s, p, word)
        /\ MatchAt(s, SkipSpaces(s, p + Len(word)), Num(i))

\* rf'\b{i}\b' found somewhere in s
SearchBareNum(s, i) ==
    \E p \in 1..Len(s) :
        /\ MatchAt(s, p, Num(i))
        /\ p = 1 \/ ~IsWordChar(s[p - 1])
        /\ p + Len(Num(i)) > Len(s) \/ ~IsWordChar(s[p + Len(Num(i))])

\* any(pattern.search(s) for pattern in HOUSE_PATTERNS[f'Domik {i}'])
HOUSE_PATTERNS(s, i) ==
    \/ SearchWordNum(s, Str_dom, i)
    \/ SearchWordNum(s, Str_domik, i)
    \/ SearchWordNum(s, Str_kottedzh, i)
    \/ SearchWordNum(s, Str_house, i)
    \/ SearchWordNum(s, Str_cottage, i)
    \/ SearchBareNum(s, i)
    \/ Contains(s, <<"t">> \o Num(i))
    \/ Contains(s, Str_kws \o Num(i))
    \/ i = 1 /\ Contains(s, Str_ths)

\* _assign_device_to_house with house 1 as the group of the names in which
\* no pattern is found
AssignDeviceToFirstHouse(friendly_name) ==
    LET s == Lower(friendly_name)
        hit == {i \in HouseNumbers : HOUSE_PATTERNS(s, i)}
    IN  HouseName(IF hit = {} THEN 1 ELSE CHOOSE i \in hit : \A j \in hit : i <= j)

\* _assign_device_to_house: the first house, in the order 1..10, one of
\* whose patterns is found in the lower-cased name
AssignDeviceToHouse(friendly_name) ==
    LET s == Lower(friendly_name)
        hit == {i \in HouseNumbers : HOUSE_PATTERNS(s, i)}
    IN  IF hit = {} THEN GeneralName
        ELSE HouseName(CHOOSE i \in hit : \A j \in hit : i <= j)

\* entity_id.split('.')[0]
RECURSIVE SplitFirst(_)
SplitFirst(e) ==
    IF e = <<>> \/ e[1] = "." THEN <<>> ELSE <<e[1]>> \o SplitFirst(Tail(e))

\* _is_controllable_device with the sensors taken as controllable too
IsControllableOrSensor(entity_id) ==
    SplitFirst(entity_id) \in CONTROLLABLE_DOMAINS \cup {<<"sensor">>}

IsControllableDevice(entity_id) == SplitFirst(entity_id) \in CONTROLLABLE_DOMAINS

\* device['attributes'].get('friendly_name', default)
FriendlyName(device, default) ==
    IF "friendly_name" \in DOMAIN device.attributes
    THEN device.attributes.friendly_name ELSE default

AllGroupNames == {HouseName(i) : i \in HouseNumbers} \cup {GeneralName}

\* the devices of a list that were assigned to group g, the last one first
DevicesOfHouseLastFirst(controllable, assigned, g) ==
    LET F[i \in 0..Len(controllable)] ==
            IF i = 0 THEN <<>>
            ELSE IF assigned[i] = g THEN <<controllable[i]>> \o F[i - 1]
            ELSE F[i - 1]
    IN  F[Len(controllable)]

\* the devices of a list that were assigned to group g, in list order
DevicesOfHouse(controllable, assigned, g) ==
    LET F[i \in 0..Len(controllable)] ==
            IF i = 0 THEN <<>>
            ELSE IF assigned[i] = g THEN Append(F[i - 1], controllable[i])
            ELSE F[i - 1]
    IN  F[Len(controllable)]

\* the dict of the non-empty groups
NonEmptyGroups(controllable, assigned) ==
    [g \in {assigned[i] : i \in 1..Len(controllable)} |->
        DevicesOfHouse(controllable, assigned, g)]

\* the house of every device of a list
AssignAll(controllable) ==
    [i \in 1..Len(controllable) |->
        AssignDeviceToHouse(FriendlyName(controllable[i], <<>>))]

\* The grouping that manual_area_grouping builds from a device list: the
\* controllable devices of each group in fetch order, empty groups dropped.
GroupDevices(devices) ==
    LET G(controllable) == NonEmptyGroups(controllable, AssignAll(controllable))
    IN  G(SelectSeq(devices, LAMBDA d : IsControllableDevice(d.entity_id)))

\* shorten_name with the stop words removed in the given order
RECURSIVE RemoveWords(_, _)
RemoveWords(s, words) ==
    IF words = <<>> THEN s
    ELSE RemoveWords(Remove(s, Head(words)), Tail(words))

\* shorten_name for one iteration order of the set WORDS_TO_REMOVE: the
\* group's name removed whatever its case, the stop words removed as
\* written, white space collapsed, at most 12 characters
ShortenNameIn(name, area_name, words) ==
    LET Cut(clean) ==
            IF Len(clean) > 12 THEN SubSeq(clean, 1, 12) \o <<".", ".", ".">>
            ELSE IF clean # <<>> THEN clean ELSE Str_Ustrojstvo
    IN  Cut(Strip(CollapseSpaces(
                RemoveWords(RemoveIgnoreCase(name, area_name), words))))

\* shorten_name with the stop words in the order of the listing
ShortenName(name, area_name) ==
    ShortenNameIn(name, area_name, WORDS_TO_REMOVE)

-----------------------------------------------------------------------------
(* Values                                                                  *)

\* An Optional value: None is the empty tuple, a present value x is <<x>>.
None == <<>>
Some(x) == <<x>>
IsNone(o) == o = <<>>
Val(o) == o[1]

\* dict.get(k, default)
DictGet(d, k, default) == IF k \in DOMAIN d THEN d[k] ELSE default

\* d[k] = v on a dict
DictPut(d, k, v) == [x \in DOMAIN d \cup {k} |-> IF x = k THEN v ELSE d[x]]

\* {} of Python
EmptyDict == <<>>

\* the cache key "all" of load_areas_with_devices
Str_all == <<"a", "l", "l">>

-----------------------------------------------------------------------------
(* The hub (Home Assistant) and the users: the environment of the bot      *)

\* "Domik 1 Lamp", "Pump", "Domik 1 temp"
Name_Lamp == <<"C_D", "c_o", "c_m", "c_i", "c_k", " ", "1", " ",
               "L", "a", "m", "p">>
Name_Pump == <<"P", "u", "m", "p">>
Name_Temp == <<"C_D", "c_o", "c_m", "c_i", "c_k", " ", "1", " ",
               "t", "e", "m", "p">>

Id_Lamp == <<"light", ".", "a">>
Id_Pump == <<"switch", ".", "p">>
Id_Temp == <<"sensor", ".", "s">>

HubDevice(id, name, state) ==
    [entity_id |-> id, state |-> state, attributes |-> [friendly_name |-> name]]

\* The device lists the hub can hold: the lamp of house 1 (on or off), a
\* sensor, and a pump that is installed or not.
HubStates ==
    {<<HubDevice(Id_Lamp, Name_Lamp, s),
       HubDevice(Id_Temp, Name_Temp, "20")>> \o p :
        s \in {"on", "off"},
        p \in {<<>>, <<HubDevice(Id_Pump, Name_Pump, "off")>>}}

\* what a successful turn_on / turn_off does to the hub's devices
HubAfterControl(h, entity_id, action) ==
    [i \in 1..Len(h) |->
        IF h[i].entity_id = entity_id THEN [h[i] EXCEPT !.state = action]
        ELSE h[i]]

\* the chat ids of the users
Users == {1, 2}

MaxTime == 2

\* manual_area_grouping's result for the device lists that the hub of the
\* model can return, computed once: the grouping is a function of the list
GroupingOfHubStates == [h \in HubStates \cup {<<>>} |-> GroupDevices(h)]

Grouping(devices) ==
    IF devices \in DOMAIN GroupingOfHubStates THEN GroupingOfHubStates[devices]
    ELSE GroupDevices(devices)

\* shorten_name's result for the names of the hub's devices in the groups
\* they can be listed in, computed once
ShortNameOfHubDevices ==
    [p \in {Name_Lamp, Name_Pump} \X {HouseName(1), GeneralName} |->
        ShortenName(p[1], p[2])]

ShortName(name, area_name) ==
    IF <<name, area_name>> \in DOMAIN ShortNameOfHubDevices
    THEN ShortNameOfHubDevices[<<name, area_name>>]
    ELSE ShortenName(name, area_name)

-----------------------------------------------------------------------------
(* The cache layer.  An operation of the bot is a function from a context  *)
(* record b (the bot's attributes, the hub, and the calls and replies the  *)
(* running handler has made so far) to the context after it; e holds what  *)
(* the hub answers during the handler.                                     *)

\* _clear_cache that keeps the raw device list
ClearCacheKeepingDevices(b) ==
    [b EXCEPT !.devices_cache = EmptyDict,
              !.cache_timestamp = EmptyDict,
              !.areas_list_memo = None]

\* _clear_cache that keeps the memoized list of group names
ClearCacheKeepingMemo(b) ==
    [b EXCEPT !.devices_cache = EmptyDict,
              !.all_devices = None,
              !.cache_timestamp = EmptyDict]

\* the four assignments of _clear_cache, which the source also repeats
\* inline (bot_core.py:274-277, 399-402, 507-510, 555-558)
ClearCacheState(b) ==
    [b EXCEPT !.devices_cache = EmptyDict,
              !.all_devices = None,
              !.cache_timestamp = EmptyDict,
              !.areas_list_memo = None]

\* _clear_cache, with the invalidation noted in the handler's call log
ClearCache(b) ==
    LET b1 == ClearCacheState(b)
    IN  IF b.exc THEN b ELSE
        [b1 EXCEPT !.ev = Append(@,
            [kind |-> "inv",
             had |-> /\ b.devices_cache # EmptyDict
                     /\ ~IsNone(b.all_devices)
                     /\ b.cache_timestamp # EmptyDict
                     /\ ~IsNone(b.areas_list_memo),
             cleared |-> /\ b1.devices_cache = EmptyDict
                         /\ IsNone(b1.all_devices)
                         /\ b1.cache_timestamp = EmptyDict
                         /\ IsNone(b1.areas_list_memo)])]

\* home_assistant("states"): the hub's device list, or None on a failure
HomeAssistantStates(b, e) == IF e.fetch_ok THEN Some(b.hub) ELSE None

\* get_all_devices that asks the hub whether or not a list is stored
GetAllDevicesAlways(b, e) ==
    LET r == HomeAssistantStates(b, e)
        devices == IF IsNone(r) \/ Val(r) = <<>> THEN <<>> ELSE Val(r)
    IN  [b EXCEPT !.all_devices = Some(devices),
                  !.fetches = @ + 1,
                  !.got = Some(devices)]

\* get_all_devices that takes an empty stored list for no list
GetAllDevicesIfEmpty(b, e) ==
    IF IsNone(b.all_devices) \/ b.all_devices = Some(<<>>)
    THEN GetAllDevicesAlways(b, e)
    ELSE b

\* get_all_devices: one hub call when no list is stored, none otherwise
GetAllDevices(b, e) ==
    IF IsNone(b.all_devices)
    THEN LET r == HomeAssistantStates(b, e)
             devices == IF IsNone(r) \/ Val(r) = <<>> THEN <<>> ELSE Val(r)
         IN  [b EXCEPT !.all_devices = Some(devices),
                       !.fetches = @ + 1,
                       !.got = Some(devices)]
    ELSE b

\* manual_area_grouping that never drops the stored device list
ManualAreaGroupingOfStored(b, force_refresh, e) == GetAllDevices(b, e)

\* manual_area_grouping: the context after it; the grouping it returns is
\* GroupDevices of the stored device list
ManualAreaGrouping(b, force_refresh, e) ==
    GetAllDevices(IF force_refresh THEN [b EXCEPT !.all_devices = None] ELSE b, e)

\* the "cache_valid" expression of load_areas_with_devices
CacheValid(b, force_refresh) ==
    /\ ~force_refresh
    /\ Str_all \in DOMAIN b.cache_timestamp
    /\ (now - b.cache_timestamp[Str_all]) < CACHE_TTL
    /\ Str_all \in DOMAIN b.devices_cache

\* device['attributes'] of manual_area_grouping (bot_core.py:241) raises a
\* KeyError for a controllable device that has no 'attributes'
Malformed(devices) ==
    \E i \in 1..Len(devices) :
        /\ IsControllableDevice(devices[i].entity_id)
        /\ "attributes" \notin DOMAIN devices[i]

\* the two assignments of load_areas_with_devices (bot_core.py:261-262);
\* b1 is the context after get_all_devices. When manual_area_grouping
\* raises, neither is made and the exception goes up (exc).
StoreGrouping(b1) ==
    IF Malformed(Val(b1.all_devices)) THEN [b1 EXCEPT !.exc = TRUE]
    ELSE [b1 EXCEPT !.devices_cache = Grouping(Val(b1.all_devices)),
                    !.cache_timestamp = DictPut(@, Str_all, now)]

\* load_areas_with_devices without the call log
LoadAreasState(b, force_refresh, e) ==
    IF ~CacheValid(b, force_refresh)
    THEN StoreGrouping(ManualAreaGrouping(b, force_refresh, e))
    ELSE b

\* the read noted in the handler's call log: b before it, b2 after it
LogRead(b, b2, force_refresh) ==
    [b2 EXCEPT !.ev = Append(@,
        [kind |-> "read",
         force |-> force_refresh,
         time |-> now,
         stored |-> ~IsNone(b.all_devices),
         age |-> IF Str_all \in DOMAIN b.cache_timestamp
                 THEN now - b.cache_timestamp[Str_all] ELSE -1,
         fetches |-> b2.fetches - b.fetches,
         got |-> IF b2.fetches > b.fetches THEN b2.got ELSE None,
         result |-> b2.devices_cache,
         raised |-> b2.exc])]

\* load_areas_with_devices: the context after it; it returns devices_cache
LoadAreasWithDevices(b, force_refresh, e) ==
    IF b.exc THEN b
    ELSE LogRead(b, LoadAreasState(b, force_refresh, e), force_refresh)

\* get_area_devices that refreshes whatever force_refresh is
GetAreaDevicesRefreshed(b, area_name, force_refresh, e) ==
    LoadAreasWithDevices(ClearCache(b), TRUE, e)

\* get_area_devices: the context after it
GetAreaDevicesState(b, area_name, force_refresh, e) ==
    LoadAreasWithDevices(IF force_refresh THEN ClearCache(b) ELSE b,
                         force_refresh, e)

\* get_area_devices: the list it returns, read from the context after it
GetAreaDevicesResult(b_after, area_name) ==
    DictGet(b_after.devices_cache, area_name, <<>>)

\* the house names of a grouping sorted by number, then the other groups
SortedAreas(areas) ==
    LET houses == {i \in HouseNumbers : HouseName(i) \in DOMAIN areas}
        F[i \in 0..10] ==
            IF i = 0 THEN <<>>
            ELSE IF i \in houses THEN Append(F[i - 1], HouseName(i)) ELSE F[i - 1]
    IN  F[10] \o (IF GeneralName \in DOMAIN areas THEN <<GeneralName>> ELSE <<>>)

\* get_all_areas_list under lru_cache(maxsize=1): computed from a non-forced
\* read when nothing is memoized, the memoized list otherwise
GetAllAreasList(b, e) ==
    LET Memoize(b1) ==
            [b1 EXCEPT !.areas_list_memo = Some(SortedAreas(b1.devices_cache))]
        Computed(b1) == IF b1.exc THEN b1 ELSE Memoize(b1)
    IN  IF ~b.exc /\ IsNone(b.areas_list_memo)
        THEN Computed(LoadAreasWithDevices(b, FALSE, e))
        ELSE b

-----------------------------------------------------------------------------
(* Texts of the chat                                                       *)

\* '/start', 'obnovit', 'nazad', 'status vseh', 'dannye', 'status'
Str_start == <<"/", "s", "t", "a", "r", "t">>
Str_obnovit == <<"c_o", "c_b", "c_n", "c_o", "c_v", "c_i", "c_t", "c_soft">>
Str_nazad == <<"c_n", "c_a", "c_z", "c_a", "c_d">>
Str_status_vseh == <<"c_s", "c_t", "c_a", "c_t", "c_u", "c_s", " ",
                     "c_v", "c_s", "c_e", "c_h">>
Str_dannye == <<"c_d", "c_a", "c_n", "c_n", "c_y", "c_e">>
Str_status == <<"c_s", "c_t", "c_a", "c_t", "c_u", "c_s">>
\* 'vkl' (on) and 'vykl' (off)
Str_vkl == <<"c_v", "c_k", "c_l">>
Str_vykl == <<"c_v", "c_y", "c_k", "c_l">>
\* 'Domik' and 'Obshchie', the words that mark a group name
Str_Domik == <<"C_D", "c_o", "c_m", "c_i", "c_k">>
Str_Obshchie == <<"C_O", "c_b", "c_sch", "c_i", "c_e">>

\* the list of the state-reset commands (bot_core.py:394)
ResetCommands == {Str_start, Str_obnovit, Str_nazad, Str_status_vseh}

\* device_name_pattern.sub('', text): every 'vkl' or 'vykl' removed,
\* whatever its letter case
RECURSIVE DeviceNamePatternSub(_)
DeviceNamePatternSub(text) ==
    IF text = <<>> THEN text
    ELSE IF MatchAt(Lower(text), 1, Str_vkl)
         THEN DeviceNamePatternSub(From(text, Len(Str_vkl) + 1))
    ELSE IF MatchAt(Lower(text), 1, Str_vykl)
         THEN DeviceNamePatternSub(From(text, Len(Str_vykl) + 1))
    ELSE <<text[1]>> \o DeviceNamePatternSub(Tail(text))

-----------------------------------------------------------------------------
(* Sensors                                                                 *)

INVALID_STATES == {"unavailable", "unknown", "None", ""}

\* the sensor types of SENSORS_MAP['Domik 1']
SensorTypes == {"battery", "temperature_indoor", "humidity",
                "temperature_outdoor", "voltage_l1", "voltage_l2",
                "voltage_l3", "total_energy"}

\* SENSORS_MAP has the one key 'Domik 1'
InSensorsMap(area_name) == area_name = HouseName(1)

\* the state strings that the sensors of the model report
SensorValues == {"21.5", "230", "0", "-3", "nan", "unavailable", "unknown",
                 "None", "", "abc", "21,5"}

\* the strings of the model that float() accepts
FloatStrings == {"21.5", "230", "0", "-3", "nan"}

\* _is_float
IsFloat(value) == value \in FloatStrings

\* _is_numeric_value without the call of _is_float
IsNotInvalidState(value) == value # "" /\ value \notin INVALID_STATES

\* _is_numeric_value
IsNumericValue(value) ==
    value # "" /\ value \notin INVALID_STATES /\ IsFloat(value)

\* What the hub answers for the sensors during one handler: for each sensor
\* type None (the request failed, or the answer holds no 'state') or the
\* state string of the sensor. Every sensor reports the same string, or the
\* battery or one voltage reports a string and the others one other answer.
SensorAnswers ==
    {[t \in SensorTypes |-> Some(v)] : v \in SensorValues}
    \cup {[t \in SensorTypes |-> IF t = x THEN Some(v) ELSE o] :
            x \in {"battery", "voltage_l2"}, v \in SensorValues,
            o \in {None, Some("230")}}

\* the answers when every sensor request fails
NoSensors == [t \in SensorTypes |-> None]

\* get_kws_sensors_data: the dict it builds for an area of SENSORS_MAP
KwsData(e) ==
    [t \in {x \in SensorTypes :
              ~IsNone(e.sensors[x]) /\ IsNumericValue(Val(e.sensors[x]))}
        |-> [value |-> Val(e.sensors[t])]]

\* get_kws_sensors_data: the context after it
GetKwsSensorsData(b, area_name, e) ==
    IF b.exc \/ ~InSensorsMap(area_name) THEN b
    ELSE [b EXCEPT !.sensors_cache = DictPut(@, area_name, KwsData(e))]

\* get_kws_sensors_data: what it returns
KwsResult(area_name, e) ==
    IF ~InSensorsMap(area_name) THEN None ELSE Some(KwsData(e))

\* format_kws_data: the sensors of one line of the text, with their values
KwsLine(kws, label, types) ==
    LET F[i \in 0..Len(types)] ==
            IF i = 0 THEN <<>>
            ELSE IF types[i] \in DOMAIN kws
            THEN Append(F[i - 1], [sensor |-> types[i],
                                   value |-> kws[types[i]].value])
            ELSE F[i - 1]
    IN  IF F[Len(types)] = <<>> THEN <<>>
        ELSE <<[label |-> label, shown |-> F[Len(types)]]>>

\* format_kws_data: which of its texts it returns, and for the text with
\* data its lines after the heading (the units are printed as received)
FormatKwsData(kws) ==
    LET Lines(d) ==
            KwsLine(d, "temperature_indoor", <<"temperature_indoor">>)
            \o KwsLine(d, "temperature_outdoor", <<"temperature_outdoor">>)
            \o KwsLine(d, "humidity", <<"humidity">>)
            \o KwsLine(d, "battery", <<"battery">>)
            \o KwsLine(d, "voltage", <<"voltage_l1", "voltage_l2", "voltage_l3">>)
            \o KwsLine(d, "total_energy", <<"total_energy">>)
        Text(lines) ==
            IF lines # <<>> THEN [kind |-> "sensors_data", lines |-> lines]
            ELSE [kind |-> "sensors_temporarily_unavailable", lines |-> <<>>]
    IN  IF IsNone(kws) \/ DOMAIN Val(kws) = {}
        THEN [kind |-> "sensors_unavailable", lines |-> <<>>]
        ELSE Text(Lines(Val(kws)))

-----------------------------------------------------------------------------
(* Sessions, menus and replies                                             *)

\* set_user_state; data is None or the name of the user's house
SetUserState(b, chat_id, state, data) ==
    IF b.exc THEN b
    ELSE [b EXCEPT !.user_states =
             DictPut(@, chat_id, [state |-> state, data |-> data])]

\* get_user_state
GetUserState(user_states_, chat_id) ==
    DictGet(user_states_, chat_id, [state |-> "main"])

\* len([d for d in devices if d['state'] == 'on'])
OnCount(devices) == Len(SelectSeq(devices, LAMBDA d : d.state = "on"))

\* sum(len(devices) for devices in areas.values())
RECURSIVE SumLen(_, _)
SumLen(areas, keys) ==
    IF keys = {} THEN 0
    ELSE LET k == CHOOSE x \in keys : TRUE
         IN  Len(areas[k]) + SumLen(areas, keys \ {k})

\* create_house_menu: for each of the first six devices the state shown
\* and the short name on its two buttons
HouseKeyboard(devices, area_name) ==
    [i \in 1..(IF Len(devices) < 6 THEN Len(devices) ELSE 6) |->
        [on |-> devices[i].state = "on",
         short_name |->
            ShortName(FriendlyName(devices[i], devices[i].entity_id),
                      area_name)]]

\* telegram("sendMessage", ...): whether Telegram took the message; it
\* does unless the answers of the handler's environment say otherwise
SendOk(e) == IF "send_ok" \in DOMAIN e THEN e.send_ok ELSE TRUE

\* send_message: the menu is built first (a non-forced read of the house,
\* or the memoized list of areas), then the message is sent. An exception
\* of the menu is caught (bot_core.py:374-376) and nothing is sent; replies
\* holds the messages that Telegram took.
SendMessage(b, text, menu_type, area_name, e) ==
    LET house == menu_type = "house" /\ area_name # <<>>
        Send(b1) ==
            IF b1.exc THEN [b1 EXCEPT !.exc = FALSE]
            ELSE IF ~SendOk(e) THEN b1
            ELSE
            [b1 EXCEPT !.replies = Append(@,
                [text |-> text,
                 menu |-> IF house THEN "house" ELSE "main",
                 keyboard |->
                    IF house
                    THEN HouseKeyboard(GetAreaDevicesResult(b1, area_name),
                                       area_name)
                    ELSE Val(b1.areas_list_memo)])]
    IN  IF b.exc THEN b
        ELSE IF house THEN Send(GetAreaDevicesState(b, area_name, FALSE, e))
        ELSE Send(GetAllAreasList(b, e))

-----------------------------------------------------------------------------
(* Control                                                                 *)

\* home_assistant("services/<domain>/turn_<action>", ...) through
\* _make_request: None when urlopen raised (a transport error, or a status
\* that is no success), the decoded answer otherwise, which is the list of
\* the entities that changed
HomeAssistantService(h, entity_id, action, e) ==
    IF ~e.ctrl_ok THEN None
    ELSE IF action \in {"on", "off"} /\ HubAfterControl(h, entity_id, action) # h
    THEN Some(<<entity_id>>)
    ELSE Some(<<>>)

\* control_device that reports a success whatever the hub call returned
ControlDeviceReturnAlways(result) == TRUE

\* control_device: 'result is not None', the value it returns
ControlDeviceReturn(result) == ~IsNone(result)

\* control_device: one hub call services/<domain>/turn_<action>, noted in
\* the call log with what the hub did (ok) and what control_device returned
ControlDevice(b, entity_id, action, e) ==
    IF b.exc THEN b ELSE
    [b EXCEPT !.ev = Append(@,
                 [kind |-> "ctrl", domain |-> SplitFirst(entity_id),
                  entity_id |-> entity_id, action |-> action,
                  ok |-> e.ctrl_ok,
                  returned |-> ControlDeviceReturn(
                      HomeAssistantService(b.hub, entity_id, action, e))]),
              !.hub = IF e.ctrl_ok /\ action \in {"on", "off"}
                      THEN HubAfterControl(@, entity_id, action) ELSE @]

\* what the control_device call that a context ends with returned
Returned(b_after) == b_after.ev[Len(b_after.ev)].returned

\* control_single_device
ControlSingleDevice(b, chat_id, text, area_name, e) ==
  LET Do(b1, device_short_name) ==
    LET action == IF Contains(Lower(text), Str_vkl) THEN "on" ELSE "off"
        devices == GetAreaDevicesResult(b1, area_name)
        short(i) == ShortName(FriendlyName(devices[i], <<>>), area_name)
        found == {i \in 1..Len(devices) : short(i) = device_short_name}
    IN  IF found # {}
        THEN LET i == CHOOSE x \in found : \A y \in found : x <= y
                 b2 == ControlDevice(b1, devices[i].entity_id, action, e)
             IN  IF Returned(b2)
                 THEN SendMessage(ClearCache(b2),
                          [kind |-> "control_done", short_name |-> short(i),
                           action |-> action],
                          "house", area_name, e)
                 ELSE SendMessage(b2,
                          [kind |-> "control_error", short_name |-> short(i)],
                          "house", area_name, e)
        ELSE SendMessage(b1,
                 [kind |-> "device_not_found", name |-> device_short_name],
                 "house", area_name, e)
      Found(b1) ==
        IF b1.exc THEN b1 ELSE Do(b1, Strip(DeviceNamePatternSub(text)))
  IN  Found(GetAreaDevicesState(b, area_name, FALSE, e))

\* show_area_status: a forced read of the house, then its devices listed
ShowAreaStatus(b, chat_id, area_name, e) ==
  LET Show(b1, devices) ==
        IF devices = <<>>
        THEN SendMessage(b1, [kind |-> "no_devices", area |-> area_name],
                         "house", area_name, e)
        ELSE SendMessage(b1,
                 [kind |-> "area_status", area |-> area_name,
                  count |-> Len(devices), on |-> OnCount(devices),
                  devices |-> devices],
                 "house", area_name, e)
      Read(b1) ==
        IF b1.exc THEN b1 ELSE Show(b1, GetAreaDevicesResult(b1, area_name))
  IN  Read(GetAreaDevicesState(b, area_name, TRUE, e))

\* show_all_houses_status
ShowAllHousesStatus(b, chat_id, e) ==
    LET Show(areas, b2, areas_list) ==
            SendMessage(b2,
                [kind |-> "all_status",
                 lines |-> [i \in 1..Len(areas_list) |->
                    [area |-> areas_list[i],
                     on |-> OnCount(DictGet(areas, areas_list[i], <<>>)),
                     count |-> Len(DictGet(areas, areas_list[i], <<>>))]]],
                "main", <<>>, e)
        List(areas, b2) ==
            IF b2.exc THEN b2 ELSE Show(areas, b2, Val(b2.areas_list_memo))
        Read(b1) == List(b1.devices_cache, GetAllAreasList(b1, e))
    IN  Read(LoadAreasWithDevices(ClearCache(b), TRUE, e))

\* show_kws_data
ShowKwsData(b, chat_id, area_name, e) ==
    SendMessage(GetKwsSensorsData(b, area_name, e),
                FormatKwsData(KwsResult(area_name, e)),
                "house", area_name, e)

\* handle_house_commands
HandleHouseCommands(b, chat_id, text, area_name, e) ==
    LET text_lower == Lower(text)
    IN  IF text_lower = Str_nazad
        THEN SendMessage(SetUserState(b, chat_id, "main", None),
                         [kind |-> "pick_house"], "main", <<>>, e)
        ELSE IF text_lower = Str_dannye
        THEN ShowKwsData(b, chat_id, area_name, e)
        ELSE IF text_lower = Str_status
        THEN ShowAreaStatus(b, chat_id, area_name, e)
        ELSE IF Contains(text_lower, Str_vkl) \/ Contains(text_lower, Str_vykl)
        THEN ControlSingleDevice(b, chat_id, text, area_name, e)
        ELSE SendMessage(b, [kind |-> "unknown_command"],
                         "house", area_name, e)

-----------------------------------------------------------------------------
(* handle_message                                                          *)

\* handle_message without the assignment of line 395: a session is left as
\* it was
KeepUserState(b, chat_id) == b

\* bot_core.py:395, the assignment that follows the comment of line 394
ResetUserState(b, chat_id) == SetUserState(b, chat_id, "main", None)

\* the body of handle_message's try.  The list of reset commands is part of
\* the comment of line 394, so the two assignments of lines 395-396 run for
\* every text.
HandleMessageTry(b, chat_id, text, e) ==
    LET text_lower == Lower(text)
        b1 == ResetUserState(b, chat_id)
        user_state == [state |-> "main"]
        b2 == IF text_lower = Str_obnovit THEN ClearCache(b1) ELSE b1
    IN  IF text_lower = Str_start \/ text_lower = Str_obnovit
        THEN LET Report(b3, areas) ==
                     SendMessage(b3,
                         [kind |-> "summary",
                          houses |-> Cardinality({a \in DOMAIN areas :
                                                     Contains(a, Str_Domik)}),
                          devices |-> SumLen(areas, DOMAIN areas)],
                         "main", <<>>, e)
                 Read(b3) ==
                     IF b3.exc THEN b3 ELSE Report(b3, b3.devices_cache)
             IN  Read(LoadAreasWithDevices(b2, TRUE, e))
        ELSE IF text_lower = Str_status_vseh
        THEN ShowAllHousesStatus(b2, chat_id, e)
        ELSE IF user_state.state = "main"
        THEN IF Contains(text, Str_Domik) \/ Contains(text, Str_Obshchie)
             THEN LET area_name == text
                      Pick(b3, devices) ==
                      IF devices # <<>>
                      THEN SendMessage(
                               SetUserState(b3, chat_id, "house", Some(area_name)),
                               [kind |-> "house_summary", area |-> area_name,
                                count |-> Len(devices), on |-> OnCount(devices)],
                               "house", area_name, e)
                      ELSE SendMessage(b3,
                               [kind |-> "no_devices", area |-> area_name],
                               "main", <<>>, e)
                      Read(b3) ==
                      IF b3.exc THEN b3
                      ELSE Pick(b3, GetAreaDevicesResult(b3, area_name))
                  IN  Read(GetAreaDevicesState(b2, area_name, FALSE, e))
             ELSE SendMessage(b2, [kind |-> "pick_from_menu"], "main", <<>>, e)
        ELSE IF user_state.state = "house"
        THEN HandleHouseCommands(b2, chat_id, text, Val(user_state.data), e)
        ELSE SendMessage(b2, [kind |-> "unknown_command"], "main", <<>>, e)

\* handle_message: the try, and the except that answers "Oshibka obrabotki
\* komandy" (bot_core.py:456-459)
HandleMessageCtx(b, chat_id, text, e) ==
    LET Except(r) ==
            IF r.exc
            THEN SendMessage([r EXCEPT !.exc = FALSE],
                             [kind |-> "handling_error"], "main", <<>>, e)
            ELSE r
    IN  Except(HandleMessageTry(b, chat_id, text, e))

-----------------------------------------------------------------------------
(* The HTTP facade and the methods of the bot that serve it                *)

\* get_device_state: the dict of the device, or None
GetDeviceState(h, entity_id, e) ==
    LET found == {i \in 1..Len(h) : h[i].entity_id = entity_id}
    IN  IF e.state_ok /\ found # {}
        THEN [type |-> "dict", entity_id |-> entity_id,
              state |-> h[CHOOSE i \in found : TRUE].state]
        ELSE [type |-> "NoneType"]

\* value == text, for a value that is a dict or None and a text that is a str
PyEqStr(value, text) == value.type = "str" /\ value.value = text

\* get_all_areas_for_api: a forced read
GetAllAreasForApi(b, e) == LoadAreasWithDevices(b, TRUE, e)

\* get_area_data_for_api: a forced read of the area, then its sensors
GetAreaDataForApi(b, area_name, e) ==
    GetKwsSensorsData(GetAreaDevicesState(b, area_name, TRUE, e), area_name, e)

\* control_device of api_server.py that clears the cache after the hub call,
\* whether the call succeeded or not
ApiControlDeviceClearingAlways(b, data, e) ==
    IF data = EmptyDict \/ "entity_id" \notin DOMAIN data
                        \/ "action" \notin DOMAIN data
    THEN [b EXCEPT !.replies = Append(@, [status |-> 400])]
    ELSE IF data.action \notin {"on", "off", "toggle"}
    THEN [b EXCEPT !.replies = Append(@, [status |-> 400])]
    ELSE LET current_state == GetDeviceState(b.hub, data.entity_id, e)
             action == IF data.action = "toggle"
                       THEN IF PyEqStr(current_state, "on") THEN "off" ELSE "on"
                       ELSE data.action
             b1 == ControlDevice(b, data.entity_id, action, e)
             b2 == ClearCache(b1)
         IN  IF Returned(b1)
             THEN [b2 EXCEPT !.replies = Append(@,
                     [status |-> 200, action_performed |-> action,
                      current_state |->
                         GetDeviceState(b2.hub, data.entity_id, e)])]
             ELSE [b2 EXCEPT !.replies = Append(@, [status |-> 500])]

\* control_device of api_server.py: the context after it
ApiControlDevice(b, data, e) ==
    IF data = EmptyDict \/ "entity_id" \notin DOMAIN data
                        \/ "action" \notin DOMAIN data
    THEN [b EXCEPT !.replies = Append(@, [status |-> 400])]
    ELSE IF data.action \notin {"on", "off", "toggle"}
    THEN [b EXCEPT !.replies = Append(@, [status |-> 400])]
    ELSE LET current_state == GetDeviceState(b.hub, data.entity_id, e)
             action == IF data.action = "toggle"
                       THEN IF PyEqStr(current_state, "on") THEN "off" ELSE "on"
                       ELSE data.action
             b1 == ControlDevice(b, data.entity_id, action, e)
         IN  IF Returned(b1)
             THEN LET b2 == ClearCache(b1)
                  IN  [b2 EXCEPT !.replies = Append(@,
                         [status |-> 200, action_performed |-> action,
                          current_state |->
                             GetDeviceState(b2.hub, data.entity_id, e)])]
             ELSE [b1 EXCEPT !.replies = Append(@, [status |-> 500])]

\* control_device_api of bot_core.py: the context after it
ControlDeviceApi(b, entity_id, action, e) ==
    LET b1 == ControlDevice(b, entity_id, action, e)
        updated_state == GetDeviceState(b1.hub, entity_id, e)
    IN  IF Returned(b1)
        THEN [b1 EXCEPT !.replies = Append(@,
                [success |-> TRUE, action_performed |-> action,
                 current_state |-> IF updated_state.type = "dict"
                                   THEN updated_state.state ELSE "unknown"])]
        ELSE [b1 EXCEPT !.replies = Append(@, [success |-> FALSE])]

-----------------------------------------------------------------------------
(* The state machine                                                       *)

\* "Obnovit", "Nazad", "Status vseh", "Status", "Dannye": the button texts
Txt_Obnovit == <<"C_O", "c_b", "c_n", "c_o", "c_v", "c_i", "c_t", "c_soft">>
Txt_Nazad == <<"C_N", "c_a", "c_z", "c_a", "c_d">>
Txt_StatusVseh == <<"C_S", "c_t", "c_a", "c_t", "c_u", "c_s", " ",
                    "c_v", "c_s", "c_e", "c_h">>
Txt_Status == <<"C_S", "c_t", "c_a", "c_t", "c_u", "c_s">>
Txt_Dannye == <<"C_D", "c_a", "c_n", "c_n", "c_y", "c_e">>
\* "VKL Lamp", "VYKL Lamp", "VKL Pump": the control buttons
Txt_OnLamp == <<"C_V", "C_K", "C_L", " ", "L", "a", "m", "p">>
Txt_OffLamp == <<"C_V", "C_Y", "C_K", "C_L", " ", "L", "a", "m", "p">>
Txt_OnPump == <<"C_V", "C_K", "C_L", " ", "P", "u", "m", "p">>
\* a text that is no command
Txt_Hi == <<"H", "i">>

\* the texts the users send
Texts == {Str_start, Txt_Obnovit, Txt_Nazad, Txt_StatusVseh,
          Txt_Status, Txt_Dannye, HouseName(1), HouseName(2),
          Txt_OnLamp, Txt_OffLamp, Txt_OnPump, Txt_Hi, Str_Domik}

\* the texts of the chat that read or reset the cache
CacheTexts == {Str_start, Txt_Obnovit, HouseName(1)}

\* the request bodies of POST /api/device/control
ControlRequests ==
    {[entity_id |-> Id_Lamp, action |-> a] : a \in {"on", "off", "toggle", "blink"}}
    \cup {[action |-> "on"], EmptyDict}

\* the context a handler starts from
Ctx == [user_states |-> user_states, devices_cache |-> devices_cache,
        all_devices |-> all_devices, cache_timestamp |-> cache_timestamp,
        areas_list_memo |-> areas_list_memo, sensors_cache |-> sensors_cache,
        hub |-> hub, ev |-> <<>>, replies |-> <<>>, fetches |-> 0,
        got |-> None, error_count |-> error_count, exc |-> FALSE,
        last_id |-> last_id, telegram |-> telegram, handled |-> handled]

\* what the hub answers during one handler
Env(fetch_ok, ctrl_ok, state_ok, sensors) ==
    [fetch_ok |-> fetch_ok, ctrl_ok |-> ctrl_ok, state_ok |-> state_ok,
     sensors |-> sensors]

\* the reads and the invalidations of a call log
CacheEvents(log) == SelectSeq(log, LAMBDA x : x.kind \in {"read", "inv"})

\* what is kept of the last read or invalidation before the running handler
Summary(event) ==
    IF event.kind = "read"
    THEN [kind |-> "read", force |-> event.force, time |-> event.time,
          result |-> event.result]
    ELSE [kind |-> event.kind]

LastCacheEvent(log, before) ==
    IF log # <<>> THEN Summary(log[Len(log)]) ELSE before

\* the state a handler leaves, with the record of what it did
Commit(b, done) ==
    /\ user_states' = b.user_states
    /\ devices_cache' = b.devices_cache
    /\ all_devices' = b.all_devices
    /\ cache_timestamp' = b.cache_timestamp
    /\ areas_list_memo' = b.areas_list_memo
    /\ sensors_cache' = b.sensors_cache
    /\ hub' = b.hub
    /\ ev' = b.ev
    /\ prev' = LastCacheEvent(CacheEvents(ev), prev)
    /\ last' = done @@ [fetches |-> b.fetches, replies |-> b.replies]
    /\ error_count' = b.error_count
    /\ last_id' = b.last_id
    /\ telegram' = b.telegram
    /\ handled' = b.handled
    /\ UNCHANGED <<now, threads>>

Init ==
    /\ user_states = EmptyDict
    /\ devices_cache = EmptyDict
    /\ all_devices = None
    /\ cache_timestamp = EmptyDict
    /\ areas_list_memo = None
    /\ sensors_cache = EmptyDict
    /\ hub \in HubStates
    /\ now = 0
    /\ last = [op |-> "init"]
    /\ ev = <<>>
    /\ prev = [kind |-> "none"]
    /\ error_count = 0
    /\ last_id = 0
    /\ telegram = <<>>
    /\ handled = <<>>
    /\ threads = NoThreads

\* the record of a message: who sent what, in which session
Message(chat_id, text) ==
    [op |-> "message", chat_id |-> chat_id, text |-> text,
     pre |-> GetUserState(user_states, chat_id)]

\* one message of the chat, from one of the users, handled by handle_message
HandleMessage ==
    \E chat_id \in Users, text \in Texts, fetch_ok \in BOOLEAN :
        \E b \in {HandleMessageCtx(Ctx, chat_id, text,
                                   Env(fetch_ok, TRUE, TRUE, NoSensors))} :
            Commit(b, Message(chat_id, text))

\* a message of the first user that reads or resets the cache
HandleCacheMessage ==
    \E text \in CacheTexts, fetch_ok \in BOOLEAN :
        \E b \in {HandleMessageCtx(Ctx, 1, text,
                                   Env(fetch_ok, TRUE, TRUE, NoSensors))} :
            Commit(b, Message(1, text))

\* GET /api/areas
ApiGetAreas ==
    \E fetch_ok \in BOOLEAN :
        \E b \in {GetAllAreasForApi(Ctx, Env(fetch_ok, TRUE, TRUE, NoSensors))} :
            Commit(b, [op |-> "api_areas"])

\* GET /api/area/<name>, for a group that has no sensors
ApiGetArea ==
    \E fetch_ok \in BOOLEAN :
        \E b \in {GetAreaDataForApi(Ctx, GeneralName,
                                    Env(fetch_ok, TRUE, TRUE, NoSensors))} :
            Commit(b, [op |-> "api_area", area |-> GeneralName])

\* POST /api/device/control
ApiControl ==
    \E data \in ControlRequests, ctrl_ok \in BOOLEAN :
        \E b \in {ApiControlDevice(Ctx, data,
                                   Env(TRUE, ctrl_ok, TRUE, NoSensors))} :
            Commit(b, [op |-> "api_control", data |-> data,
                       hub_before |-> hub])

\* a call of OptimizedHomeBot.control_device_api
CallControlDeviceApi ==
    \E action \in {"on", "off"}, ctrl_ok \in BOOLEAN :
        \E b \in {ControlDeviceApi(Ctx, Id_Lamp, action,
                                   Env(TRUE, ctrl_ok, TRUE, NoSensors))} :
            Commit(b, [op |-> "control_device_api", entity_id |-> Id_Lamp,
                       action |-> action])

\* POST /api/refresh
ApiRefresh ==
    \E b \in {ClearCache(Ctx)} : Commit(b, [op |-> "api_refresh"])

\* the hub's devices change: one is switched by hand, installed or removed
HubChange ==
    /\ hub' \in HubStates \ {hub}
    /\ UNCHANGED <<user_states, devices_cache, all_devices, cache_timestamp,
                   areas_list_memo, sensors_cache, now, last, ev, prev,
                   error_count, last_id, telegram, handled, threads>>

\* time passes
Tick ==
    /\ now < MaxTime
    /\ now' = now + 1
    /\ UNCHANGED <<user_states, devices_cache, all_devices, cache_timestamp,
                   areas_list_memo, sensors_cache, hub, last, ev, prev,
                   error_count, last_id, telegram, handled, threads>>

\* The chat: two users, every text, a hub that changes and may not answer.
Next ==
    \/ HandleMessage
    \/ HubChange

Spec == Init /\ [][Next]_vars

\* The cache: the chat of one user, the reading requests of the HTTP
\* facade, a hub that changes, and time.
NextCache ==
    \/ HandleCacheMessage
    \/ ApiGetAreas
    \/ ApiGetArea
    \/ ApiRefresh
    \/ HubChange
    \/ Tick

SpecCache == Init /\ [][NextCache]_vars

\* Device control: the control requests of the HTTP facade, the calls of
\* control_device_api, and the chat of one user.
NextControl ==
    \/ HandleCacheMessage
    \/ ApiControl
    \/ CallControlDeviceApi
    \/ HubChange

SpecControl == Init /\ [][NextControl]_vars

-----------------------------------------------------------------------------
(* The sessions of the chat (SESSION STATE MACHINE of the specification):  *)
(* ROOT is the state 'main', IN_GROUP(g) the state 'house' with data g.    *)

InRoot(session) == session.state = "main"
InGroup(session, g) == session.state = "house" /\ session.data = Some(g)

\* the session of the user whose message was handled last
SessionOfSender == GetUserState(user_states, last.chat_id)

\* the last message is a reset command, whatever its letter case
IsResetCommand(text) == Lower(text) \in ResetCommands

\* the hub control calls of the last handler
ControlCalls == SelectSeq(ev, LAMBDA x : x.kind = "ctrl")

\* C1: for every user and every session state, once handle_message has
\* handled a text whose lower-cased form is "/start", "obnovit", "nazad" or
\* "status vseh", the session of that user is stored and is ROOT.
C1_ResetCommandLeadsToRoot ==
    (last.op = "message" /\ IsResetCommand(last.text)) =>
        /\ last.chat_id \in DOMAIN user_states
        /\ InRoot(SessionOfSender)

\* C1 happens: a user who was in a group sent a reset command and is in ROOT
C1_ResetFromGroup ==
    /\ last.op = "message"
    /\ IsResetCommand(last.text)
    /\ InGroup(last.pre, HouseName(1))
    /\ InRoot(SessionOfSender)

\* C2: a user in IN_GROUP(g) who sends a text that is no reset command is
\* still in IN_GROUP(g) afterwards, and the text was handled by the submenu
\* of the group: no reply is the prompt of the root menu.
C2_OtherTextStaysInGroup ==
    (last.op = "message" /\ last.pre.state = "house"
                         /\ ~IsResetCommand(last.text)) =>
        /\ SessionOfSender = last.pre
        /\ \A i \in 1..Len(last.replies) :
               /\ last.replies[i].text.kind # "pick_from_menu"
               /\ last.replies[i].menu = "house"

C4_OnOffTextControlsOneDevice ==
    (last.op = "message" /\ last.pre.state = "house"
        /\ (Contains(Lower(last.text), Str_vkl)
               \/ Contains(Lower(last.text), Str_vykl))) =>
        LET g == Val(last.pre.data)
            devices == DictGet(Grouping(Val(all_devices)), g, <<>>)
            named == {i \in 1..Len(devices) :
                         ShortName(FriendlyName(devices[i], <<>>), g)
                             = Strip(DeviceNamePatternSub(last.text))}
        IN  IF named # {}
            THEN /\ Len(ControlCalls) = 1
                 /\ ControlCalls[1].entity_id =
                        devices[CHOOSE i \in named :
                                    \A j \in named : i <= j].entity_id
            ELSE /\ ControlCalls = <<>>
                 /\ \E i \in 1..Len(last.replies) :
                        last.replies[i].text.kind = "device_not_found"


-----------------------------------------------------------------------------
(* The cache (CACHE LAYER of the specification): get_or_refresh is         *)
(* load_areas_with_devices, invalidate is _clear_cache or the same four    *)
(* assignments written inline.                                             *)

\* the reads and invalidations of the last handler, and the one before each
Log == CacheEvents(ev)
Before(i) == IF i = 1 THEN prev ELSE Summary(Log[i - 1])

IsRead(event, force) == event.kind = "read" /\ event.force = force

\* C5: of two reads that are not forced, the second made less than CACHE_TTL
\* after the first and with no invalidation between them, the second makes
\* no hub fetch and returns the grouping the first returned; a read that
\* finds no device list stored makes exactly one fetch, so the two make one
\* fetch in total.
C5_TwoReadsWithinTtlFetchOnce ==
    \A i \in 1..Len(Log) :
        IsRead(Log[i], FALSE) =>
            /\ ~Log[i].stored => Log[i].fetches = 1
            /\ (IsRead(Before(i), FALSE)
                    /\ Log[i].time - Before(i).time < CACHE_TTL) =>
                   /\ Log[i].fetches = 0
                   /\ Log[i].result = Before(i).result

\* C5 happens: a second read, one time unit after the first, returned the
\* devices of the first although the hub's devices had changed
C5_SecondReadServedFromCache ==
    /\ Log # <<>>
    /\ IsRead(Log[1], FALSE)
    /\ IsRead(prev, FALSE)
    /\ Log[1].time - prev.time = 1
    /\ Log[1].fetches = 0
    /\ Log[1].result = prev.result
    /\ Log[1].result # EmptyDict
    /\ Log[1].result # Grouping(hub)

\* C6: a read that is not forced and finds a stored entry whose age is
\* CACHE_TTL or more makes a hub fetch and stores the grouping of the devices
\* it fetched.
C6_StaleEntryIsRefetched ==
    \A i \in 1..Len(Log) :
        (IsRead(Log[i], FALSE) /\ Log[i].age >= CACHE_TTL) =>
            /\ Log[i].fetches = 1
            /\ Log[i].result = Grouping(Val(Log[i].got))

\* C7: a forced read makes one hub fetch whatever the age of the stored
\* entry, and the grouping stored after it is the grouping of the devices
\* that fetch returned (of no devices, when the hub did not answer).
C7_ForcedReadFetches ==
    \A i \in 1..Len(Log) :
        IsRead(Log[i], TRUE) =>
            /\ Log[i].fetches = 1
            /\ ~IsNone(Log[i].got)
            /\ Log[i].result = Grouping(Val(Log[i].got))
            /\ (i = Len(Log) => devices_cache = Log[i].result)

\* C7 happens: a forced read of a fresh entry (age 0) fetched devices that
\* differ from the stored ones and stored their grouping
C7_ForcedReadOfFreshEntry ==
    /\ Log # <<>>
    /\ IsRead(Log[1], TRUE)
    /\ Log[1].stored /\ Log[1].age = 0
    /\ IsRead(prev, TRUE) /\ prev.result # Log[1].result
    /\ Log[1].result # EmptyDict
    /\ devices_cache = Log[1].result

\* C8: the read that follows an invalidation, when it is not forced, makes a
\* hub fetch, however little time has passed since the fetch before.
C8_ReadAfterInvalidationFetches ==
    \A i \in 1..Len(Log) :
        (IsRead(Log[i], FALSE) /\ Before(i).kind = "inv") =>
            /\ Log[i].fetches = 1
            /\ ~Log[i].stored

\* C8 happens: an entry stored at this very time was invalidated by a
\* handler, and the read of the next handler fetched again
C8_FetchRightAfterInvalidation ==
    /\ Log # <<>>
    /\ IsRead(Log[1], FALSE)
    /\ prev.kind = "inv"
    /\ last.op = "message" /\ last.text = HouseName(1)
    /\ Log[1].fetches = 1
    /\ Log[1].time = 0

\* C9: every hub control call that succeeded -- of the chat, of POST
\* /api/device/control, of control_device_api -- is followed, before its
\* handler returns, by an invalidation of the cache.
C9_SuccessfulControlInvalidates ==
    \A i \in 1..Len(ev) :
        (ev[i].kind = "ctrl" /\ ev[i].ok) =>
            \E j \in (i + 1)..Len(ev) : ev[j].kind = "inv"

\* C10: an invalidation empties the stored grouping, the stored device list,
\* the timestamp and the memoized list of group names together; when it is
\* the last thing a handler does to the cache, all four are empty in the
\* state the handler leaves.
C10_InvalidationClearsAllFour ==
    /\ \A i \in 1..Len(Log) : Log[i].kind = "inv" => Log[i].cleared
    /\ (Log # <<>> /\ Log[Len(Log)].kind = "inv") =>
           /\ devices_cache = EmptyDict
           /\ IsNone(all_devices)
           /\ cache_timestamp = EmptyDict
           /\ IsNone(areas_list_memo)

\* C10 happens: an invalidation found all four holding a value and left all
\* four empty
C10_ClearedFullCache ==
    /\ Log # <<>>
    /\ Log[Len(Log)].kind = "inv"
    /\ Log[Len(Log)].had
    /\ Log[Len(Log)].cleared
    /\ IsNone(areas_list_memo)

-----------------------------------------------------------------------------
(* The HTTP facade (API FACADE of the specification)                       *)

\* the state the hub holds for a device, "" when it holds none
StateIn(h, entity_id) ==
    LET found == {i \in 1..Len(h) : h[i].entity_id = entity_id}
    IN  IF found = {} THEN "" ELSE h[CHOOSE i \in found : TRUE].state

\* the last handler was POST /api/device/control with a well-formed "toggle"
IsToggleRequest ==
    /\ last.op = "api_control"
    /\ {"entity_id", "action"} \subseteq DOMAIN last.data
    /\ last.data.action = "toggle"

\* C11: a "toggle" request to POST /api/device/control issues the inverse of
\* the state the hub reports for the device: turn_off (and
\* action_performed "off" in the response) when the device is "on", turn_on
\* for any other state.
C11_ToggleIssuesInverse ==
    IsToggleRequest =>
        LET observed == StateIn(last.hub_before, last.data.entity_id)
            inverse == IF observed = "on" THEN "off" ELSE "on"
        IN  /\ Len(ControlCalls) = 1
            /\ ControlCalls[1].action = inverse
            /\ ControlCalls[1].ok =>
                   last.replies[1].action_performed = inverse

-----------------------------------------------------------------------------
(* POST /api/batch/devices                                                 *)

\* the greatest number of ids of one batch request (api_server.py:179)
MAX_BATCH_IDS == 20

\* the longest list of ids a request of the model holds
MaxIds == 21

\* a list of n ids: the lamp, the pump and the sensor in turn
BatchIds(n) == [i \in 1..n |-> <<Id_Lamp, Id_Pump, Id_Temp>>[(i % 3) + 1]]

\* request.json of a batch request: nothing, a dict without 'entity_ids', or
\* a dict whose 'entity_ids' is a str or a list of ids
BatchRequests ==
    {EmptyDict, [other |-> 1],
     [entity_ids |-> [type |-> "str", value |-> Id_Lamp]]}
    \cup {[entity_ids |-> [type |-> "list", items |-> BatchIds(n)]] :
             n \in 0..MaxIds}

\* the test of api_server.py:179 without the limit on the length
BatchRejectedNoLimit(entity_ids) == entity_ids.type # "list"

\* not isinstance(entity_ids, list) or len(entity_ids) > 20
BatchRejected(entity_ids) ==
    entity_ids.type # "list" \/ Len(entity_ids.items) > MAX_BATCH_IDS

\* the loop of batch_get_devices: one get_device_state, a hub call, for each
\* id of the list in turn; results is a dict keyed by the ids
RECURSIVE BatchLoop(_, _, _, _)
BatchLoop(b, ids, results, e) ==
    IF ids = <<>>
    THEN [b EXCEPT !.replies = Append(@, [status |-> 200, data |-> results])]
    ELSE BatchLoop(
             [b EXCEPT !.ev = Append(@, [kind |-> "state",
                                         entity_id |-> Head(ids)])],
             Tail(ids),
             DictPut(results, Head(ids), GetDeviceState(b.hub, Head(ids), e)),
             e)

\* batch_get_devices: the context after it
ApiBatchDevices(b, data, e) ==
    IF data = EmptyDict \/ "entity_ids" \notin DOMAIN data
    THEN [b EXCEPT !.replies = Append(@, [status |-> 400])]
    ELSE IF BatchRejected(data.entity_ids)
    THEN [b EXCEPT !.replies = Append(@, [status |-> 400])]
    ELSE BatchLoop(b, data.entity_ids.items, EmptyDict, e)

\* POST /api/batch/devices
ApiBatch ==
    \E data \in BatchRequests, state_ok \in BOOLEAN :
        \E b \in {ApiBatchDevices(Ctx, data,
                                  Env(TRUE, TRUE, state_ok, NoSensors))} :
            Commit(b, [op |-> "api_batch", data |-> data])

\* Batch requests for the states of devices of a hub that changes.
NextBatch ==
    \/ ApiBatch
    \/ HubChange

SpecBatch == Init /\ [][NextBatch]_vars

\* the hub calls get_device_state made during the last handler
StateCalls == SelectSeq(ev, LAMBDA x : x.kind = "state")

\* C12: a request to POST /api/batch/devices whose entity_ids is not a list
\* or has more than 20 elements is answered 400 and makes no hub call; a
\* list of at most 20 ids is answered with one result for each id of the
\* list, each read from the hub by one call.
C12_BatchOfAtMostTwentyIds ==
    (last.op = "api_batch" /\ "entity_ids" \in DOMAIN last.data) =>
        LET entity_ids == last.data.entity_ids
        IN  IF entity_ids.type = "list" /\ Len(entity_ids.items) <= 20
            THEN /\ last.replies = <<[status |-> 200,
                                      data |-> last.replies[1].data]>>
                 /\ DOMAIN last.replies[1].data =
                        {entity_ids.items[i] : i \in 1..Len(entity_ids.items)}
                 /\ ev = [i \in 1..Len(entity_ids.items) |->
                             [kind |-> "state", entity_id |-> entity_ids.items[i]]]
            ELSE /\ last.replies = <<[status |-> 400]>>
                 /\ ev = <<>>

\* C12 happens: a list of 21 ids was rejected without a hub call
C12_TwentyOneIdsRejected ==
    /\ last.op = "api_batch"
    /\ "entity_ids" \in DOMAIN last.data
    /\ last.data.entity_ids.type = "list"
    /\ Len(last.data.entity_ids.items) = 21
    /\ last.replies = <<[status |-> 400]>>
    /\ StateCalls = <<>>

-----------------------------------------------------------------------------
(* The polling loop of run_telegram_bot                                    *)

\* the greatest number of updates of one answer to getUpdates in the model
MaxUpdates == 2

\* the failures after which the loop resets the cache: 'error_count > 3'
ERROR_LIMIT == 3

\* the greatest update_id that Telegram gives out in the model
MaxUpdateId == 3

\* the updates that can arrive with an id: a text message of the first
\* user, who starts over or names house 1, or an update without a message
UpdatesWithId(n) ==
    {[update_id |-> n, message |-> [chat |-> [id |-> 1], text |-> t]] :
        t \in {Str_start, HouseName(1)}}
    \cup {[update_id |-> n]}

\* what Telegram answers to getUpdates?offset=...: the first updates, at
\* most MaxUpdates, whose id is not below the offset
GetUpdates(received, offset) ==
    LET due == SelectSeq(received, LAMBDA u : u.update_id >= offset)
    IN  SubSeq(due, 1, IF Len(due) < MaxUpdates THEN Len(due) ELSE MaxUpdates)

\* whether the loop passes an update to handle_message
HasText(update) ==
    "message" \in DOMAIN update /\ "text" \in DOMAIN update.message

\* the body of 'for update in updates' without the assignment to last_id
HandleUpdateKeepingLastId(b, update, e) ==
    IF HasText(update)
    THEN HandleMessageCtx([b EXCEPT !.handled = Append(@, update.update_id)],
                          update.message.chat.id, update.message.text, e)
    ELSE b

\* the body of 'for update in updates': last_id is set, then the message,
\* if the update has one with a text, is handled
HandleUpdate(b, update, e) ==
    IF HasText(update)
    THEN HandleMessageCtx([b EXCEPT !.last_id = update.update_id,
                                    !.handled = Append(@, update.update_id)],
                          update.message.chat.id, update.message.text, e)
    ELSE [b EXCEPT !.last_id = update.update_id]

\* 'for update in updates': the updates handled one after the other
RECURSIVE HandleUpdates(_, _, _)
HandleUpdates(b, updates, e) ==
    IF updates = <<>> THEN b
    ELSE HandleUpdates(HandleUpdate(b, Head(updates), e), Tail(updates), e)

\* one turn of the loop whose getUpdates was answered with ok
PollAnswered(b, updates, e) ==
    [HandleUpdates(b, updates, e) EXCEPT !.error_count = 0]

\* one turn of the loop whose getUpdates returned nothing or no ok
PollFailed(b) ==
    IF b.error_count + 1 > ERROR_LIMIT
    THEN [ClearCache(b) EXCEPT !.error_count = 0]
    ELSE [b EXCEPT !.error_count = @ + 1]

\* the record of a turn of the loop
Poll(ok, updates) ==
    [op |-> "poll", ok |-> ok, updates |-> updates,
     errors_before |-> error_count, offset |-> last_id + 1,
     handled_before |-> handled]

PollOk ==
    \E updates \in {GetUpdates(telegram, last_id + 1)}, fetch_ok \in BOOLEAN :
        \E b \in {PollAnswered(Ctx, updates,
                               Env(fetch_ok, TRUE, TRUE, NoSensors))} :
            Commit(b, Poll(TRUE, updates))

PollError ==
    \E b \in {PollFailed(Ctx)} : Commit(b, Poll(FALSE, <<>>))

\* Telegram receives an update for the bot
UpdateArrives ==
    /\ Len(telegram) < MaxUpdateId
    /\ telegram' \in {Append(telegram, u) : u \in UpdatesWithId(Len(telegram) + 1)}
    /\ UNCHANGED <<user_states, devices_cache, all_devices, cache_timestamp,
                   areas_list_memo, sensors_cache, hub, now, last, ev, prev,
                   error_count, last_id, handled, threads>>

\* The polling loop: updates that arrive, polls that succeed or fail, and a
\* hub that changes.
NextPoll ==
    \/ UpdateArrives
    \/ PollOk
    \/ PollError
    \/ HubChange

SpecPoll == Init /\ [][NextPoll]_vars

\* C13: the third failed poll in a row makes exactly one invalidation of the
\* cache and sets the count of failures to zero; a failed poll that is the
\* first or the second in a row makes none; a poll that succeeds sets the
\* count to zero.
C13_ThirdFailureInvalidates ==
    (last.op = "poll") =>
        IF last.ok THEN error_count = 0
        ELSE IF last.errors_before = 2
        THEN /\ Len(Log) = 1 /\ Log[1].kind = "inv"
             /\ error_count = 0
        ELSE /\ Log = <<>>
             /\ error_count = last.errors_before + 1

-----------------------------------------------------------------------------
(* Grouping by name (DEVICE GROUPING): manual_area_grouping called on the  *)
(* device lists of a hub whose devices carry the names below.              *)

\* the display names that carry the label or a numeric token of house k and
\* nothing of another house: "Domik k Lamp", "house k", "tk", "k"
TokenNames(k) ==
    {HouseName(k) \o <<" ", "L", "a", "m", "p">>,
     Str_house \o <<" ">> \o Num(k),
     <<"t">> \o Num(k),
     Num(k)}

\* "Domik 2 t5" and "t5 Domik 2": names with tokens of houses 2 and 5
MixedNames ==
    {HouseName(2) \o <<" ", "t", "5">>, <<"t", "5", " ">> \o HouseName(2)}

\* a device whose attributes hold no friendly_name
Unnamed(id) == [entity_id |-> id, state |-> "off", attributes |-> EmptyDict]

\* the lights of the hub, one name each
Lights ==
    {HubDevice(Id_Lamp, n, "off") :
        n \in UNION {TokenNames(k) : k \in HouseNumbers}}

\* the other devices: switches with a name of two houses, of no house, an
\* empty name or none, and sensors
Others ==
    {HubDevice(Id_Pump, n, "off") : n \in MixedNames \cup {Name_Pump, <<>>}}
    \cup {Unnamed(Id_Pump), HubDevice(Id_Temp, Name_Temp, "20"),
          HubDevice(Id_Temp, Name_Pump, "20")}

\* the device lists of the hub: one device, a light and another device in
\* either order, or a switch and a sensor in either order
GroupedHubs ==
    {<<d>> : d \in Lights \cup Others}
    \cup {<<a, c>> : a \in Lights, c \in Others}
    \cup {<<c, a>> : a \in Lights, c \in Others}
    \cup {<<c, d>> \in Others \X Others : c.entity_id # d.entity_id}

\* manual_area_grouping: the dict it returns, read from the context after
\* it (bot_core.py:229-245)
ManualAreaGroupingResult(b_after) == Grouping(Val(b_after.all_devices))

InitGrouping ==
    /\ user_states = EmptyDict
    /\ devices_cache = EmptyDict
    /\ all_devices = None
    /\ cache_timestamp = EmptyDict
    /\ areas_list_memo = None
    /\ sensors_cache = EmptyDict
    /\ hub \in GroupedHubs
    /\ now = 0
    /\ last = [op |-> "init"]
    /\ ev = <<>>
    /\ prev = [kind |-> "none"]
    /\ error_count = 0
    /\ last_id = 0
    /\ telegram = <<>>
    /\ handled = <<>>
    /\ threads = NoThreads

\* a call of OptimizedHomeBot.manual_area_grouping
CallManualAreaGrouping ==
    \E force_refresh \in BOOLEAN, fetch_ok \in BOOLEAN :
        \E b \in {ManualAreaGrouping(Ctx, force_refresh,
                                     Env(fetch_ok, TRUE, TRUE, NoSensors))} :
            Commit(b, [op |-> "grouping", force |-> force_refresh,
                       devices |-> Val(b.all_devices),
                       result |-> ManualAreaGroupingResult(b)])

NextGrouping == CallManualAreaGrouping

\* The grouping: manual_area_grouping on every device list of GroupedHubs,
\* with a hub that may not answer.
SpecGrouping == InitGrouping /\ [][NextGrouping]_vars

\* the places <<group, index>> of a grouping that hold a device
Places(result, d) ==
    {p \in UNION {{g} \X (1..Len(result[g])) : g \in DOMAIN result} :
        result[p[1]][p[2]] = d}

\* the devices of the list that manual_area_grouping last grouped
Grouped == {last.devices[i] : i \in 1..Len(last.devices)}

\* C14: a controllable device whose display name carries the label or the
\* numeric token of house k, for k in 1..10, and no token of another house
\* ("Domik 10 ...", "house 10", "t10", "10") is put in the group "Domik k".
C14_TokenOfHouseAssignsToHouse ==
    (last.op = "grouping") =>
        \A d \in Grouped : \A k \in HouseNumbers :
            (IsControllableDevice(d.entity_id)
             /\ FriendlyName(d, <<>>) \in TokenNames(k))
            => \E p \in Places(last.result, d) : p[1] = HouseName(k)

\* the houses one of whose patterns is found in the display name of a device
HousesFound(d) ==
    {i \in HouseNumbers : HOUSE_PATTERNS(Lower(FriendlyName(d, <<>>)), i)}

\* C15: a controllable device whose display name matches no pattern of the
\* houses 1..10, a device without a display name included, is in the group
\* "Obshchie ustrojstva" and in no other group.
C15_NoPatternGoesToGeneral ==
    (last.op = "grouping") =>
        \A d \in Grouped :
            (IsControllableDevice(d.entity_id) /\ HousesFound(d) = {})
            => /\ Places(last.result, d) # {}
               /\ \A p \in Places(last.result, d) : p[1] = GeneralName

\* C15 happens: a device without a display name was grouped next to a light
\* of house 3
C15_UnnamedDeviceGrouped ==
    /\ last.op = "grouping"
    /\ Unnamed(Id_Pump) \in Grouped
    /\ HouseName(3) \in DOMAIN last.result
    /\ GeneralName \in DOMAIN last.result

\* C16: in every grouping each fetched device of a controllable domain is
\* at exactly one place, each device of another domain at none, and a device
\* whose display name matches patterns of several houses is in the group of
\* the lowest of them.
C16_ExactlyOneGroupLowestFirst ==
    (last.op = "grouping") =>
        \A d \in Grouped :
            IF SplitFirst(d.entity_id) \in CONTROLLABLE_DOMAINS
            THEN /\ Cardinality(Places(last.result, d)) = 1
                 /\ \A i \in HousesFound(d) :
                        (\A j \in HousesFound(d) : i <= j)
                        => \E p \in Places(last.result, d) : p[1] = HouseName(i)
            ELSE Places(last.result, d) = {}

\* C16 happens: a sensor was fetched after a switch named "t5 Domik 2",
\* which is in the group of house 2
C16_MixedNameAndSensorGrouped ==
    /\ last.op = "grouping"
    /\ \E d \in Grouped : SplitFirst(d.entity_id) = <<"sensor">>
    /\ \E d \in Grouped :
           /\ FriendlyName(d, <<>>) = <<"t", "5", " ">> \o HouseName(2)
           /\ HousesFound(d) = {2, 5}
           /\ <<HouseName(2), 1>> \in Places(last.result, d)

-----------------------------------------------------------------------------
(* Short names (DEVICE GROUPING): shorten_name called on display names,    *)
(* and on the short names it returned.                                     *)

\* the orders in which 'for word in WORDS_TO_REMOVE' can visit the set: the
\* order of the listing and the opposite one
WordOrders ==
    {WORDS_TO_REMOVE,
     [i \in 1..Len(WORDS_TO_REMOVE) |->
         WORDS_TO_REMOVE[Len(WORDS_TO_REMOVE) + 1 - i]]}

\* "Domik 3 Lamp"
Name_Lamp3 == HouseName(3) \o <<" ", "L", "a", "m", "p">>

\* the display names that are shortened, each with the group it is listed
\* in: plain names, names with the group's label in either case, with a
\* stop word in either case, with a stop word inside a stop word, with more
\* than 12 characters, with nothing but stop words
ShortenInputs ==
    {<<Name_Lamp, HouseName(1)>>, <<Name_Lamp3, HouseName(3)>>,
     <<Lower(Name_Lamp3), HouseName(3)>>, <<Name_Lamp3, GeneralName>>,
     <<Name_Pump, GeneralName>>, <<Name_Pump, <<>>>>,
     <<Str_lamp, GeneralName>>, <<Str_lamp \o <<" ">> \o Str_light, <<>>>>,
     <<<<"l", "a">> \o Str_lamp \o <<"m", "p">>, <<>>>>,
     <<<<"s">> \o Str_light \o <<"w", "i", "t", "c", "h">>, <<>>>>,
     <<<<"l", "i">> \o Str_switch \o <<"g", "h", "t">>, <<>>>>,
     <<<<"C_D", "c_o">> \o HouseName(1) \o <<"c_m", "c_i", "c_k", " ", "1", " ", "x">>,
       HouseName(1)>>,
     <<<<"a", " ", " ", "b">>, GeneralName>>,
     <<<<" ">>, GeneralName>>, <<<<>>, GeneralName>>,
     <<Str_cottage \o <<" ">> \o Str_cottage, GeneralName>>,
     <<Str_cottage \o <<" ">> \o Str_house \o <<"s">>, <<>>>>,
     <<HouseName(10) \o <<" ">> \o Str_lampa \o <<" ">> \o Str_rozetka,
       HouseName(10)>>,
     <<HouseName(10) \o <<" ">> \o Str_rozetka \o <<" ", "x">>, HouseName(1)>>}

\* a call of OptimizedHomeBot.shorten_name on a display name
CallShortenName ==
    /\ \E p \in ShortenInputs, words \in WordOrders :
           last' = [op |-> "shorten_name", name |-> p[1], area_name |-> p[2],
                    words |-> words, derived |-> FALSE,
                    result |-> ShortenNameIn(p[1], p[2], words)]
    /\ UNCHANGED <<user_states, devices_cache, all_devices, cache_timestamp,
                   areas_list_memo, sensors_cache, hub, now, ev, prev,
                   error_count, last_id, telegram, handled, threads>>

\* a call of shorten_name on the short name that the last call returned, in
\* the same group
CallShortenNameAgain ==
    /\ last.op = "shorten_name"
    /\ ~last.derived
    /\ \E words \in WordOrders :
           last' = [op |-> "shorten_name", name |-> last.result,
                    area_name |-> last.area_name, words |-> words,
                    derived |-> TRUE,
                    result |-> ShortenNameIn(last.result, last.area_name, words)]
    /\ UNCHANGED <<user_states, devices_cache, all_devices, cache_timestamp,
                   areas_list_memo, sensors_cache, hub, now, ev, prev,
                   error_count, last_id, telegram, handled, threads>>

NextShorten ==
    \/ CallShortenName
    \/ CallShortenNameAgain

\* The short names: shorten_name on the display names of ShortenInputs and
\* on its own results.
SpecShorten == Init /\ [][NextShorten]_vars

\* C17: shorten_name is idempotent: the short name derived from a short
\* name, in the same group, is that short name.
C17_ShortNameOfShortNameIsSame ==
    (last.op = "shorten_name" /\ last.derived) => last.result = last.name

\* C18: the short name holds neither the label of the group nor a stop
\* word, whatever the letter case in which the display name carries them:
\* the short name of "Domik 3 Lamp" in "Domik 3" holds no "lamp".
C18_NoLabelNoStopWordInAnyCase ==
    (last.op = "shorten_name" /\ ~last.derived /\ last.area_name # <<>>) =>
        /\ ~Contains(Lower(last.result), Lower(last.area_name))
        /\ \A i \in 1..Len(last.words) :
               last.words[i] \in {Str_lamp, Str_light, Str_switch}
               => ~Contains(Lower(last.result), last.words[i])

-----------------------------------------------------------------------------
(* Sensor summaries (SENSOR DATA): show_kws_data called for a house with   *)
(* sensors and for one without.                                            *)

\* a call of OptimizedHomeBot.show_kws_data, for house 1 (the key of
\* SENSORS_MAP) or house 2
CallShowKwsData ==
    \E area_name \in {HouseName(1), HouseName(2)}, sensors \in SensorAnswers :
        \E b \in {ShowKwsData(Ctx, 1, area_name,
                              Env(TRUE, TRUE, TRUE, sensors))} :
            Commit(b, [op |-> "show_kws_data", area_name |-> area_name,
                       sensors |-> sensors])

NextSensors == CallShowKwsData

\* The sensor summaries: show_kws_data with every answer of SensorAnswers.
SpecSensors == Init /\ [][NextSensors]_vars

\* the sensor types that a formatted summary shows
ShownSensors(text) ==
    UNION {{text.lines[i].shown[j].sensor : j \in 1..Len(text.lines[i].shown)} :
              i \in 1..Len(text.lines)}

\* the sensor types whose reading, in the last call, is a number
NumericReadings ==
    {t \in SensorTypes :
        /\ ~IsNone(last.sensors[t])
        /\ Val(last.sensors[t]) \in {"21.5", "230", "0", "-3", "nan"}}

\* C19: a sensor whose reading is "unavailable", "unknown", empty, not a
\* number or missing is not in the summary of the group, a sensor with a
\* numeric reading is; with no numeric reading, or for a group without
\* sensors, the summary is the "data unavailable" text.
C19_OnlyNumericReadingsShown ==
    (last.op = "show_kws_data") =>
        /\ Len(last.replies) = 1
        /\ IF last.area_name = HouseName(1) /\ NumericReadings # {}
           THEN /\ last.replies[1].text.kind = "sensors_data"
                /\ ShownSensors(last.replies[1].text) = NumericReadings
                /\ DOMAIN sensors_cache[HouseName(1)] = NumericReadings
           ELSE last.replies[1].text.kind = "sensors_unavailable"

\* C19 happens: the battery reports "abc" and the other sensors 230, and
\* the summary shows the other seven
C19_NonNumericLeftOut ==
    /\ last.op = "show_kws_data"
    /\ last.area_name = HouseName(1)
    /\ last.sensors["battery"] = Some("abc")
    /\ NumericReadings = SensorTypes \ {"battery"}
    /\ last.replies[1].text.kind = "sensors_data"

-----------------------------------------------------------------------------
(* Device control (DEVICE CONTROL): control_device called on entity ids of *)
(* several domains, with and without a ".", and every action text.         *)

\* a call of OptimizedHomeBot.control_device
CallControlDevice ==
    \E entity_id \in {Id_Lamp, Id_Pump, Id_Temp, Str_lamp},
       action \in {"on", "off", "blink"}, ctrl_ok \in BOOLEAN :
        \E b \in {ControlDevice(Ctx, entity_id, action,
                                Env(TRUE, ctrl_ok, TRUE, NoSensors))} :
            Commit(b, [op |-> "control_device", entity_id |-> entity_id,
                       action |-> action, returned |-> Returned(b)])

NextDevice ==
    \/ CallControlDevice
    \/ HubChange

\* Device control: calls of control_device and a hub that changes.
SpecDevice == Init /\ [][NextDevice]_vars

\* C20: control_device makes exactly one hub call, turn_<action> of the
\* domain of the entity id; it returns (a bool, so nothing is raised), true
\* only if the hub call succeeded and false when it failed.
C20_OneCallTrueOnlyOnSuccess ==
    (last.op = "control_device") =>
        /\ Len(ev) = 1
        /\ ev[1].kind = "ctrl"
        /\ ev[1].domain = SplitFirst(last.entity_id)
        /\ ev[1].entity_id = last.entity_id
        /\ ev[1].action = last.action
        /\ last.returned \in BOOLEAN
        /\ last.returned => ev[1].ok
        /\ ~ev[1].ok => ~last.returned

\* C20 happens: the hub call to switch the pump on failed and control_device
\* returned false
C20_FailedCallReturnsFalse ==
    /\ last.op = "control_device"
    /\ last.entity_id = Id_Pump
    /\ last.action = "on"
    /\ ~ev[1].ok
    /\ ~last.returned

-----------------------------------------------------------------------------
(* Failures (ERROR HANDLING): the chat of one user with a hub that can     *)
(* return a device without 'attributes', and a Telegram that can refuse a  *)
(* message.                                                                *)

\* the device lists in which the lamp has no 'attributes'
BrokenHubs ==
    {<<[entity_id |-> Id_Lamp, state |-> s]>> \o t :
        s \in {"on", "off"},
        t \in {<<>>, <<HubDevice(Id_Temp, Name_Temp, "20")>>}}

\* a message of the first user, with a hub and a Telegram that may fail
HandleMessageWithFailures ==
    \E text \in {Str_start, Txt_Obnovit, Txt_StatusVseh, HouseName(1), Txt_Hi},
       fetch_ok \in BOOLEAN, send_ok \in BOOLEAN :
        \E b \in {HandleMessageCtx(Ctx, 1, text,
                     Env(fetch_ok, TRUE, TRUE, NoSensors)
                         @@ [send_ok |-> send_ok])} :
            Commit(b, Message(1, text)
                          @@ [send_ok |-> send_ok, raised |-> b.exc])

\* the hub starts to return a malformed device list
HubBreaks ==
    /\ hub' \in BrokenHubs
    /\ UNCHANGED <<user_states, devices_cache, all_devices, cache_timestamp,
                   areas_list_memo, sensors_cache, now, last, ev, prev,
                   error_count, last_id, telegram, handled, threads>>

NextFailures ==
    \/ HandleMessageWithFailures
    \/ HubBreaks
    \/ HubChange

\* Failures: the chat of one user, a hub whose list is sound, malformed or
\* not returned, and messages that Telegram takes or not.
SpecFailures == Init /\ [][NextFailures]_vars

\* the reads of the last handler in which manual_area_grouping raised
RaisedReads == SelectSeq(ev, LAMBDA x : x.kind = "read" /\ x.raised)

\* C21: handle_message raises nothing to the polling loop, and a failure
\* while it handles a message (here: malformed device data, with a Telegram
\* that takes every message) is answered with the generic failure reply.
C21_FailureAnsweredWithGenericReply ==
    (last.op = "message") =>
        /\ ~last.raised
        /\ (last.send_ok /\ RaisedReads # <<>>)
           => \E i \in 1..Len(last.replies) :
                  last.replies[i].text.kind = "handling_error"

-----------------------------------------------------------------------------
(* C22 to C24: the sessions and the grouping again                         *)

\* C22: a user whose session is ROOT (a user without a stored session
\* included) and who sends a text that is no reset command and no group
\* name stays in ROOT and gets the one reply "pick from the menu".
C22_OtherTextInRootPrompts ==
    (/\ last.op = "message"
     /\ InRoot(last.pre)
     /\ ~IsResetCommand(last.text)
     /\ last.text \notin AllGroupNames) =>
        /\ InRoot(SessionOfSender)
        /\ Len(last.replies) = 1
        /\ last.replies[1].text = [kind |-> "pick_from_menu"]

\* C23: a user in IN_GROUP(g) who sends "status" gets the status report of
\* g from a forced refresh: a hub fetch is made while the message is handled
\* and the report lists the devices of g of that fetch.
C23_StatusInGroupIsForcedReport ==
    (/\ last.op = "message"
     /\ last.pre.state = "house"
     /\ Lower(last.text) = Str_status) =>
        /\ last.fetches >= 1
        /\ \E i \in 1..Len(ev) : IsRead(ev[i], TRUE) /\ ~IsNone(ev[i].got)
        /\ \E j \in 1..Len(last.replies) :
               /\ last.replies[j].text.kind \in {"area_status", "no_devices"}
               /\ last.replies[j].text.area = Val(last.pre.data)

\* C24: in every grouping the devices of each group are in the order in
\* which the hub returned them, and no group without devices is a key.
C24_FetchOrderNoEmptyGroup ==
    (last.op = "grouping") =>
        \A g \in DOMAIN last.result :
            /\ last.result[g] # <<>>
            /\ last.result[g] =
                   SelectSeq(last.devices,
                             LAMBDA d : \E p \in Places(last.result, d) : p[1] = g)

\* C24 happens: the hub returned a switch and then a light, both of house
\* 2, and house 2 is the only group
C24_TwoDevicesOfOneHouse ==
    /\ last.op = "grouping"
    /\ Len(last.devices) = 2
    /\ last.devices[1].entity_id = Id_Pump
    /\ last.devices[2].entity_id = Id_Lamp
    /\ DOMAIN last.result = {HouseName(2)}
    /\ last.result[HouseName(2)] = last.devices

-----------------------------------------------------------------------------
(* C25: the order of the updates in the polling loop                       *)

\* the updates of the last poll that have a text, in the order of the batch
TextUpdates == SelectSeq(last.updates, HasText)

\* the reply that handle_message gives, in ROOT, to the text of an update
AnswersTo(reply, update) ==
    IF update.message.text = Str_start THEN reply.text.kind = "summary"
    ELSE /\ reply.text.kind \in {"house_summary", "no_devices"}
         /\ reply.text.area = update.message.text

\* C25: the text messages of a batch are handled one at a time in the order
\* of arrival; last_id is the id of the last update of the batch, the poll
\* asked for the updates from last_id + 1 on, and no update is handled a
\* second time: the ids of the handled updates only grow.
C25_UpdatesHandledOnceInOrder ==
    /\ \A i, j \in 1..Len(handled) : i < j => handled[i] < handled[j]
    /\ \A i \in 1..Len(handled) : handled[i] <= last_id
    /\ (last.op = "poll" /\ last.ok) =>
           /\ \A i \in 1..Len(last.updates) :
                  /\ last.updates[i].update_id >= last.offset
                  /\ i > 1 => last.updates[i].update_id
                                  > last.updates[i - 1].update_id
           /\ last.updates # <<>>
              => last_id = last.updates[Len(last.updates)].update_id
           /\ handled = last.handled_before
                  \o [i \in 1..Len(TextUpdates) |-> TextUpdates[i].update_id]
           /\ Len(last.replies) = Len(TextUpdates)
           /\ \A i \in 1..Len(TextUpdates) :
                  AnswersTo(last.replies[i], TextUpdates[i])

\* C25 happens: a poll brought the updates 2 and 3, both with a text, after
\* update 1 had been handled by an earlier poll
C25_SecondBatchHandled ==
    /\ last.op = "poll" /\ last.ok
    /\ last.offset = 2
    /\ Len(TextUpdates) = 2
    /\ handled = <<1, 2, 3>>

-----------------------------------------------------------------------------
(* C26: the memoized list of group names                                   *)

\* C26: whenever get_all_areas_list holds a memoized list, it is the sorted
\* list of the groups of the stored grouping, so that the main menu shows
\* no list of groups older than the stored grouping.
C26_MemoizedListIsOfStoredGrouping ==
    ~IsNone(areas_list_memo) =>
        Val(areas_list_memo) = SortedAreas(devices_cache)

-----------------------------------------------------------------------------
(* The threads of the HTTP facade.  run_api_server starts Flask with       *)
(* threaded=True: every request runs in a thread of its own on the one     *)
(* bot, and no lock guards the bot's attributes.  A step is one read or    *)
(* one assignment of an attribute, or one hub call.                        *)

NumThreads == 2

Threads == 1..NumThreads

\* a thread that serves no request
Idle ==
    [op |-> "idle", pc |-> "idle", force_refresh |-> FALSE, current_time |-> 0,
     fetched |-> None, fetch_ok |-> FALSE, all_devices |-> None,
     returned |-> None, stamped |-> FALSE, stored |-> None,
     raised |-> FALSE, stale |-> FALSE, after_control |-> FALSE,
     action |-> "none"]

\* what is remembered about the shared attributes: whether the device list
\* and the grouping that are stored were fetched before the last control
\* that changed the hub, and whether a control has finished its invalidation
Shared(list_stale, cache_stale, control_done) ==
    [op |-> "threads", list_stale |-> list_stale, cache_stale |-> cache_stale,
     control_done |-> control_done]

\* the thread t goes on with the locals r
Goto(t, r) == threads' = [threads EXCEPT ![t] = r]

At(t, op, pc) == threads[t].op = op /\ threads[t].pc = pc

\* a control has called the hub and has not finished its invalidation
Invalidating ==
    \E t \in Threads : threads[t].op = "control"
                       /\ threads[t].pc \in {"cache", "list", "stamp", "memo"}

\* a request calls load_areas_with_devices(force_refresh): current_time is
\* taken (bot_core.py:252)
StartRead ==
    \E t \in Threads, force_refresh \in BOOLEAN :
        /\ At(t, "idle", "idle")
        /\ Goto(t, [Idle EXCEPT !.op = "read",
                        !.pc = IF force_refresh THEN "drop" ELSE "in_stamps",
                        !.force_refresh = force_refresh,
                        !.current_time = now,
                        !.after_control = last.control_done /\ ~Invalidating])
        /\ UNCHANGED <<user_states, devices_cache, all_devices, cache_timestamp,
                       areas_list_memo, sensors_cache, hub, now, last, ev, prev,
                       error_count, last_id, telegram, handled>>

\* cache_valid (bot_core.py:253-258), one read of an attribute at a time:
\* 'area_name in self._cache_timestamp', then
\* 'self._cache_timestamp[area_name]', which raises a KeyError when the
\* dict was replaced in between, then 'area_name in self.devices_cache'
CheckCacheValid ==
    \E t \in Threads :
        /\ threads[t].op = "read"
        /\ \/ /\ threads[t].pc = "in_stamps"
              /\ Goto(t, [threads[t] EXCEPT !.pc =
                       IF Str_all \in DOMAIN cache_timestamp
                       THEN "stamp_of" ELSE "is_none"])
           \/ /\ threads[t].pc = "stamp_of"
              /\ Goto(t, IF Str_all \notin DOMAIN cache_timestamp
                         THEN [threads[t] EXCEPT !.pc = "done", !.raised = TRUE]
                         ELSE [threads[t] EXCEPT !.pc =
                                 IF (threads[t].current_time
                                        - cache_timestamp[Str_all]) < CACHE_TTL
                                 THEN "in_cache" ELSE "is_none"])
           \/ /\ threads[t].pc = "in_cache"
              /\ Goto(t, [threads[t] EXCEPT !.pc =
                       IF Str_all \in DOMAIN devices_cache
                       THEN "return" ELSE "is_none"])
        /\ UNCHANGED <<user_states, devices_cache, all_devices, cache_timestamp,
                       areas_list_memo, sensors_cache, hub, now, last, ev, prev,
                       error_count, last_id, telegram, handled>>

\* manual_area_grouping(True): 'self._all_devices = None' (bot_core.py:226-227)
DropDevices ==
    \E t \in Threads :
        /\ At(t, "read", "drop")
        /\ all_devices' = None
        /\ Goto(t, [threads[t] EXCEPT !.pc = "is_none"])
        /\ UNCHANGED <<user_states, devices_cache, cache_timestamp,
                       areas_list_memo, sensors_cache, hub, now, last, ev, prev,
                       error_count, last_id, telegram, handled>>

\* get_all_devices: 'if self._all_devices is None' (bot_core.py:208)
TestDevices ==
    \E t \in Threads :
        /\ At(t, "read", "is_none")
        /\ Goto(t, [threads[t] EXCEPT !.pc =
                 IF IsNone(all_devices) THEN "fetch" ELSE "get"])
        /\ UNCHANGED <<user_states, devices_cache, all_devices, cache_timestamp,
                       areas_list_memo, sensors_cache, hub, now, last, ev, prev,
                       error_count, last_id, telegram, handled>>

\* get_all_devices: 'self.home_assistant("states") or []' (bot_core.py:209),
\* the hub call
FetchDevices ==
    \E t \in Threads, fetch_ok \in BOOLEAN :
        /\ At(t, "read", "fetch")
        /\ Goto(t, [threads[t] EXCEPT !.pc = "store",
                        !.fetched = Some(IF fetch_ok THEN hub ELSE <<>>),
                        !.fetch_ok = fetch_ok,
                        !.stale = FALSE])
        /\ UNCHANGED <<user_states, devices_cache, all_devices, cache_timestamp,
                       areas_list_memo, sensors_cache, hub, now, last, ev, prev,
                       error_count, last_id, telegram, handled>>

\* get_all_devices: 'self._all_devices = ...' (bot_core.py:209), the
\* assignment of what the hub call returned
StoreDevices ==
    \E t \in Threads :
        /\ At(t, "read", "store")
        /\ all_devices' = threads[t].fetched
        /\ last' = [last EXCEPT !.list_stale = threads[t].stale]
        /\ Goto(t, [threads[t] EXCEPT !.pc = "get"])
        /\ UNCHANGED <<user_states, devices_cache, cache_timestamp,
                       areas_list_memo, sensors_cache, hub, now, ev, prev,
                       error_count, last_id, telegram, handled>>

\* get_all_devices: 'return self._all_devices' (bot_core.py:210), a read of
\* the attribute as it is now
ReturnDevices ==
    \E t \in Threads :
        /\ At(t, "read", "get")
        /\ Goto(t, [threads[t] EXCEPT !.pc = "group",
                        !.all_devices = all_devices,
                        !.stale = last.list_stale])
        /\ UNCHANGED <<user_states, devices_cache, all_devices, cache_timestamp,
                       areas_list_memo, sensors_cache, hub, now, last, ev, prev,
                       error_count, last_id, telegram, handled>>

\* manual_area_grouping groups the list it got, which raises for None and
\* for a device without attributes, and load_areas_with_devices assigns the
\* grouping: 'self.devices_cache = ...' (bot_core.py:261)
StoreGroupingStep ==
    \E t \in Threads :
        /\ At(t, "read", "group")
        /\ LET devices == threads[t].all_devices
           IN  IF IsNone(devices) \/ Malformed(Val(devices))
               THEN /\ Goto(t, [threads[t] EXCEPT !.pc = "done",
                                                  !.raised = TRUE])
                    /\ UNCHANGED <<devices_cache, last>>
               ELSE /\ devices_cache' = Grouping(Val(devices))
                    /\ last' = [last EXCEPT !.cache_stale = threads[t].stale]
                    /\ Goto(t, [threads[t] EXCEPT !.pc = "stamp"])
        /\ UNCHANGED <<user_states, all_devices, cache_timestamp,
                       areas_list_memo, sensors_cache, hub, now, ev, prev,
                       error_count, last_id, telegram, handled>>

\* 'self._cache_timestamp[area_name] = current_time' (bot_core.py:262)
StoreTimestamp ==
    \E t \in Threads :
        /\ At(t, "read", "stamp")
        /\ cache_timestamp' =
               DictPut(cache_timestamp, Str_all, threads[t].current_time)
        /\ Goto(t, [threads[t] EXCEPT !.pc = "return"])
        /\ UNCHANGED <<user_states, devices_cache, all_devices,
                       areas_list_memo, sensors_cache, hub, now, last, ev, prev,
                       error_count, last_id, telegram, handled>>

\* 'return self.devices_cache' (bot_core.py:268), a read of the attribute as
\* it is now; the thread also notes what it leaves stored
ReturnGrouping ==
    \E t \in Threads :
        /\ At(t, "read", "return")
        /\ Goto(t, [threads[t] EXCEPT !.pc = "done",
                        !.returned = Some(devices_cache),
                        !.stored = Some(devices_cache),
                        !.stamped = Str_all \in DOMAIN cache_timestamp,
                        !.stale = last.cache_stale])
        /\ UNCHANGED <<user_states, devices_cache, all_devices, cache_timestamp,
                       areas_list_memo, sensors_cache, hub, now, last, ev, prev,
                       error_count, last_id, telegram, handled>>

\* POST /api/refresh calls _clear_cache
StartClear ==
    \E t \in Threads :
        /\ At(t, "idle", "idle")
        /\ Goto(t, [Idle EXCEPT !.op = "clear", !.pc = "cache"])
        /\ UNCHANGED <<user_states, devices_cache, all_devices, cache_timestamp,
                       areas_list_memo, sensors_cache, hub, now, last, ev, prev,
                       error_count, last_id, telegram, handled>>

\* POST /api/device/control with a valid body for the lamp
StartControl ==
    \E t \in Threads, action \in {"on", "off"} :
        /\ At(t, "idle", "idle")
        /\ Goto(t, [Idle EXCEPT !.op = "control", !.pc = "call",
                                !.action = action])
        /\ UNCHANGED <<user_states, devices_cache, all_devices, cache_timestamp,
                       areas_list_memo, sensors_cache, hub, now, last, ev, prev,
                       error_count, last_id, telegram, handled>>

\* bot.control_device (api_server.py:118), the hub call.  When it changes
\* the hub, every device list and grouping fetched before it is out of date.
CallHub ==
    \E t \in Threads, ctrl_ok \in BOOLEAN :
        LET e == Env(TRUE, ctrl_ok, TRUE, NoSensors)
            result == HomeAssistantService(hub, Id_Lamp, threads[t].action, e)
            after == IF ctrl_ok THEN HubAfterControl(hub, Id_Lamp, threads[t].action)
                     ELSE hub
            changed == after # hub
        IN  /\ At(t, "control", "call")
            /\ hub' = after
            /\ threads' = [u \in Threads |->
                   IF u = t
                   THEN [threads[t] EXCEPT !.pc =
                           IF ControlDeviceReturn(result) THEN "cache" ELSE "done"]
                   ELSE IF threads[u].op = "read" /\ threads[u].pc # "done"
                   THEN [threads[u] EXCEPT !.stale = @ \/ changed,
                                           !.after_control = FALSE]
                   ELSE threads[u]]
            /\ last' = [last EXCEPT !.list_stale = @ \/ changed,
                                    !.cache_stale = @ \/ changed]
            /\ UNCHANGED <<user_states, devices_cache, all_devices,
                           cache_timestamp, areas_list_memo, sensors_cache, now,
                           ev, prev, error_count, last_id, telegram, handled>>

\* _clear_cache, one assignment at a time (bot_core.py:768-771), called by
\* POST /api/refresh and by a control that succeeded (api_server.py:122)
ClearStep ==
    \E t \in Threads :
        /\ threads[t].op \in {"clear", "control"}
        /\ \/ /\ threads[t].pc = "cache"
              /\ devices_cache' = EmptyDict
              /\ last' = [last EXCEPT !.cache_stale = FALSE]
              /\ Goto(t, [threads[t] EXCEPT !.pc = "list"])
              /\ UNCHANGED <<all_devices, cache_timestamp, areas_list_memo>>
           \/ /\ threads[t].pc = "list"
              /\ all_devices' = None
              /\ last' = [last EXCEPT !.list_stale = FALSE]
              /\ Goto(t, [threads[t] EXCEPT !.pc = "stamp"])
              /\ UNCHANGED <<devices_cache, cache_timestamp, areas_list_memo>>
           \/ /\ threads[t].pc = "stamp"
              /\ cache_timestamp' = EmptyDict
              /\ Goto(t, [threads[t] EXCEPT !.pc = "memo"])
              /\ UNCHANGED <<devices_cache, all_devices, areas_list_memo, last>>
           \/ /\ threads[t].pc = "memo"
              /\ areas_list_memo' = None
              /\ last' = [last EXCEPT !.control_done =
                             @ \/ threads[t].op = "control"]
              /\ Goto(t, [threads[t] EXCEPT !.pc = "done"])
              /\ UNCHANGED <<devices_cache, all_devices, cache_timestamp>>
        /\ UNCHANGED <<user_states, sensors_cache, hub, now, ev, prev,
                       error_count, last_id, telegram, handled>>

\* the request is answered and the thread serves the next one
EndRequest ==
    \E t \in Threads :
        /\ threads[t].pc = "done"
        /\ Goto(t, Idle)
        /\ UNCHANGED <<user_states, devices_cache, all_devices, cache_timestamp,
                       areas_list_memo, sensors_cache, hub, now, last, ev, prev,
                       error_count, last_id, telegram, handled>>

InitThreads ==
    /\ user_states = EmptyDict
    /\ devices_cache = EmptyDict
    /\ all_devices = None
    /\ cache_timestamp = EmptyDict
    /\ areas_list_memo = None
    /\ sensors_cache = EmptyDict
    /\ hub \in HubStates
    /\ now = 0
    /\ last = Shared(FALSE, FALSE, FALSE)
    /\ ev = <<>>
    /\ prev = [kind |-> "none"]
    /\ error_count = 0
    /\ last_id = 0
    /\ telegram = <<>>
    /\ handled = <<>>
    /\ threads = [t \in Threads |-> Idle]

\* The threads: reads, invalidations and controls, step by step.
NextThreads ==
    \/ StartRead
    \/ CheckCacheValid
    \/ DropDevices
    \/ TestDevices
    \/ FetchDevices
    \/ StoreDevices
    \/ ReturnDevices
    \/ StoreGroupingStep
    \/ StoreTimestamp
    \/ ReturnGrouping
    \/ StartClear
    \/ StartControl
    \/ CallHub
    \/ ClearStep
    \/ EndRequest

SpecThreads == InitThreads /\ [][NextThreads]_vars

-----------------------------------------------------------------------------
(* C27 and C28: reads, invalidations and controls that run concurrently    *)

\* the reads that returned, after a hub call of their own that succeeded
OwnReads ==
    {t \in Threads : /\ At(t, "read", "done")
                     /\ ~threads[t].raised
                     /\ threads[t].fetch_ok}

\* C27: a call of load_areas_with_devices whose own hub call succeeded
\* returns the grouping of the devices that call fetched, and when it
\* returns the stored grouping is that grouping and has its timestamp,
\* whatever another thread did between its steps.
C27_ReadReturnsWhatItFetched ==
    \A t \in OwnReads :
        /\ threads[t].returned = Some(Grouping(Val(threads[t].fetched)))
        /\ threads[t].stored = threads[t].returned
        /\ threads[t].stamped

\* C28: a call of load_areas_with_devices(False) that started after a
\* control had changed the hub and finished its invalidation, with no
\* control since, returns no grouping of devices fetched before that control.
C28_NoStaleReadAfterControl ==
    \A t \in Threads :
        /\ At(t, "read", "done")
        /\ ~threads[t].force_refresh
        /\ ~threads[t].raised
        /\ threads[t].after_control
        => ~threads[t].stale

-----------------------------------------------------------------------------
(* C29: a hub that does not answer the device-list fetch                   *)

\* the hub of the model always has a lamp, so a fetch that got no devices,
\* and a read that returned no group, are those of a hub that did not answer
FetchFailed(event) ==
    event.kind = "read" /\ event.fetches = 1 /\ event.got = Some(<<>>)

-----------------------------------------------------------------------------
(* C30: POST /api/device/control with a bad body or a hub that fails       *)

\* a body that control_device of api_server.py rejects
IsBadRequest(data) ==
    \/ "entity_id" \notin DOMAIN data
    \/ "action" \notin DOMAIN data
    \/ data.action \notin {"on", "off", "toggle"}

\* the hub control calls of the handler that failed
FailedControls(log) ==
    {i \in 1..Len(log) : log[i].kind = "ctrl" /\ ~log[i].ok}

\* C30: POST /api/device/control with no entity_id, no action or an action
\* that is not on, off or toggle is answered with the status 400, makes no
\* hub call and leaves the four parts of the cache as they were; a request
\* whose hub control call fails is answered with the status 500 and leaves
\* them as they were too, with no invalidation.
C30_BadOrFailedControlKeepsCache ==
    [][last'.op = "api_control" =>
          /\ IsBadRequest(last'.data) =>
                 /\ last'.replies = <<[status |-> 400]>>
                 /\ ev' = <<>>
                 /\ <<devices_cache, all_devices, cache_timestamp,
                      areas_list_memo>>'
                        = <<devices_cache, all_devices, cache_timestamp,
                            areas_list_memo>>
          /\ FailedControls(ev') # {} =>
                 /\ last'.replies = <<[status |-> 500]>>
                 /\ \A i \in 1..Len(ev') : ev'[i].kind # "inv"
                 /\ <<devices_cache, all_devices, cache_timestamp,
                      areas_list_memo>>'
                        = <<devices_cache, all_devices, cache_timestamp,
                            areas_list_memo>>]_vars

\* C30 happens: a request with the action 'blink' was answered with 400
\* while the device list, the grouping and its timestamp were stored
C30_BadActionRejectedWithFullCache ==
    /\ last.op = "api_control"
    /\ "action" \in DOMAIN last.data
    /\ last.data.action = "blink"
    /\ last.replies = <<[status |-> 400]>>
    /\ devices_cache # EmptyDict
    /\ ~IsNone(all_devices)
    /\ cache_timestamp # EmptyDict

====
